---- MODULE Spec2Model ----
(***************************************************************************)
(* A model of src/interactive_viewer.py: InteractiveNetworkViewer, the     *)
(* Qt window that loads process and connection records, builds the two     *)
(* process trees, filters the connections for the grid and the table and   *)
(* wires the cross-tab signals.                                            *)
(*                                                                         *)
(* Texts that the program searches or concatenates (names, addresses,      *)
(* str(Pid)) are sequences of one-character strings; values the program    *)
(* only compares for equality (Type, Status, Username) are TLA+ strings.   *)
(* A JSON object is a function from its keys; an absent key is absent from *)
(* the function's domain.                                                  *)
(***************************************************************************)
EXTENDS Integers, Sequences, FiniteSets, TLC

VARIABLES
    network_data,       \* self.network_data
    process_data,       \* self.process_data
    process_map,        \* self.process_map: str(Pid) -> record
    filtered_data,      \* self.filtered_data
    grid_search,        \* self.grid_search.text()
    grid_protocol,      \* self.grid_protocol.currentText()
    grid_status,        \* self.grid_status.currentText()
    grid_status_items,  \* items of self.grid_status
    grid_filtered,      \* `filtered` of populate_network_grid, as shown by the grid
    table_search,       \* self.table_search.text()
    table_protocol,     \* self.table_protocol.currentText()
    table_status,       \* self.table_status.currentText()
    table_user,         \* self.table_user.currentText()
    table_status_items, \* items of self.table_status
    table_user_items,   \* items of self.table_user
    tabs_index,         \* self.tabs.currentIndex()
    breadcrumb,         \* self.breadcrumb.text(), without the pin
    status_message,     \* self.statusBar().currentMessage()
    intel_tree,         \* items of self.intel_tree, in creation order
    intel_selected,     \* self.intel_tree.selectedItems(): an item index, 0 for none
    intel_details,      \* what self.intel_details shows
    process_tree,       \* items of self.process_tree, in creation order
    threat_list,        \* UserRole data of the items of self.threat_list
    timeline_rows,      \* rows of self.timeline_table
    load_error,         \* load_data's except branch ran (QMessageBox.critical)
    dashboard,          \* what the metric cards and the activity feed show
    security_cards,     \* the values of the security tab's three cards
    external_table,     \* rows of self.external_table
    advanced_table,     \* rows of self.advanced_table
    now,                \* datetime.now(), in seconds
    stack,              \* the Python call stack of the GUI thread: callbacks and slots
    dialog,             \* what the open QMessageBox.question shows, <<>> when none is open
    invoked,            \* slots of self.signals run since the last user input
    tree_search         \* self.tree_search.text()

dataVars  == <<network_data, process_data, process_map>>
gridVars  == <<grid_search, grid_protocol, grid_status, grid_status_items>>
tableVars == <<table_search, table_protocol, table_status, table_user,
               table_status_items, table_user_items>>
navVars   == <<tabs_index, breadcrumb>>
viewVars  == <<intel_tree, process_tree, threat_list, timeline_rows, load_error,
               dashboard, security_cards, external_table>>
busVars   == <<stack, dialog, invoked>>
vars == <<dataVars, filtered_data, advanced_table, gridVars, grid_filtered, tableVars, navVars,
          status_message, intel_selected, intel_details, viewVars, advanced_table,
          now, busVars, tree_search>>

----------------------------------------------------------------------------
(* Bounds of the model.                                                    *)

\* longest list of process records the tree specification loads
MaxProcs == 3
\* longest list of connection records the filter specification loads
MaxConns == 2
\* longest list of connection records the join specification loads
MaxJoinConns == 3
\* depth at which the interpreter refuses a further nested add_node call
\* (sys.getrecursionlimit() in the program); above MaxProcs, so that only a
\* traversal that revisits a record reaches it
RecursionLimit == 5
\* most items a selector of the model holds; load_data is not run on a window
\* whose selectors it would fill beyond this
MaxItems == 5

----------------------------------------------------------------------------
(* Python values.                                                          *)

\* dict.get(k, d)
Get(r, k, d) == IF k \in DOMAIN r THEN r[k] ELSE d

Has(r, k) == k \in DOMAIN r

\* JSON null as the value of Authenticode, and None for the item of a table
\* cell that was never set
JNull == [json_null |-> TRUE]

\* v is None. v may be a text, a number or a record, which the test tells
\* apart by the way they are written
IsNone(v) == ToString(v) = ToString(JNull)

\* the empty dict
EmptyDict == <<>>

\* truth value of a dict-or-None
TruthyDict(v) == v # JNull /\ DOMAIN v # {}

Digit == <<"0", "1", "2", "3", "4", "5", "6", "7", "8", "9">>

RECURSIVE StrNat(_)
\* str(n) for an int n >= 0
StrNat(n) == IF n < 10 THEN <<Digit[n + 1]>>
             ELSE StrNat(n \div 10) \o <<Digit[(n % 10) + 1]>>

NoneText == <<"N", "o", "n", "e">>

\* str(r.get(k, ''))
StrGetEmpty(r, k) == IF Has(r, k) THEN StrNat(r[k]) ELSE <<>>

\* str(r.get(k))
StrGetNone(r, k) == IF Has(r, k) THEN StrNat(r[k]) ELSE NoneText

\* str.lower() on the letters the model's texts use
LowerChar(c) ==
    CASE c = "A" -> "a" [] c = "B" -> "b" [] c = "C" -> "c" [] c = "N" -> "n"
      [] OTHER -> c

Lower(t) == [i \in DOMAIN t |-> LowerChar(t[i])]

\* needle in hay
Contains(hay, needle) ==
    \E i \in 0..(Len(hay) - Len(needle)) :
        \A j \in 1..Len(needle) : hay[i + j] = needle[j]

\* hay.startswith(prefix)
StartsWith(hay, prefix) ==
    /\ Len(prefix) <= Len(hay)
    /\ \A j \in 1..Len(prefix) : hay[j] = prefix[j]

\* the model's strings in code point order, for sorted() over str
CodeOrder == <<"", "0001-01-01 00:00:00", "0001-01-01T00:00:00Z",
               "2024-01-01 00:00:00", "2024-01-01 00:30:00", "2024-01-01 02:00:00",
               "2024-01-01T00:00:00Z", "2024-01-01T00:30:00Z", "2024-01-01T02:00:00Z",
               "2024-01-03 05:00:00", "2024-01-03T05:00:00Z", "ESTAB", "LISTEN",
               "TIME_WAIT", "alice", "bob", "carol", "dave", "not-a-time">>

\* sorted(set(...)) of strings
SortedStrings(S) == SelectSeq(CodeOrder, LAMBDA s : s \in S)

\* the characters of the model's texts in code point order
CharOrder == <<" ", "(", ")", ".", "0", "1", "2", "3", "4", "5", "6", "7", "8",
               "9", ":", "A", "B", "C", "N", "a", "b", "c", "e", "n", "o">>

CharCode(c) == CHOOSE i \in 1..Len(CharOrder) : CharOrder[i] = c

RECURSIVE TextLess(_, _)
\* a < b for two str
TextLess(a, b) ==
    IF b = <<>> THEN FALSE
    ELSE IF a = <<>> THEN TRUE
    ELSE IF a[1] = b[1] THEN TextLess(Tail(a), Tail(b))
    ELSE CharCode(a[1]) < CharCode(b[1])

RECURSIVE SortedTexts(_)
\* sorted(set(...)) of str
SortedTexts(S) ==
    IF S = {} THEN <<>>
    ELSE LET m == CHOOSE x \in S : \A y \in S \ {x} : TextLess(x, y)
         IN <<m>> \o SortedTexts(S \ {m})

\* the elements of a list
Range(s) == {s[i] : i \in DOMAIN s}

\* range(1, n + 1)
Indexes(n) == [i \in 1..n |-> i]

----------------------------------------------------------------------------
(* load_data: the PID map and the filter vocabularies.                     *)

RECURSIVE BuildProcessMap(_)
\* self.process_map[str(obj.get('Pid', ''))] = obj, record after record
BuildProcessMap(procs) ==
    IF procs = <<>> THEN <<>>
    ELSE LET n    == Len(procs)
             rest == BuildProcessMap(SubSeq(procs, 1, n - 1))
             key  == StrGetEmpty(procs[n], "Pid")
         IN [k \in DOMAIN rest \cup {key} |-> IF k = key THEN procs[n] ELSE rest[k]]

\* self.process_map.get(pid, {})
MapGet(pmap, pid) == IF pid \in DOMAIN pmap THEN pmap[pid] ELSE EmptyDict

\* sorted(set(item.get('Status', '') for item in self.network_data if item.get('Status')))
LoadStatuses(conns) ==
    SortedStrings({Get(conns[i], "Status", "") : i \in DOMAIN conns} \ {""})

\* sorted(set(p.get('Username', '') for p in self.process_data if p.get('Username')))
LoadUsers(procs) ==
    SortedStrings({Get(procs[i], "Username", "") : i \in DOMAIN procs} \ {""})

----------------------------------------------------------------------------
(* The two filters.                                                        *)

\* f"{net.get('Name', '')} {pid} {net.get('Laddr', '')} {net.get('Raddr', '')}".lower()
Searchable(net) ==
    Lower(Get(net, "Name", <<>>) \o <<" ">> \o StrGetEmpty(net, "Pid") \o <<" ">>
          \o Get(net, "Laddr", <<>>) \o <<" ">> \o Get(net, "Raddr", <<>>))

\* one pass of the loop of populate_network_grid: net is appended to filtered
GridKeeps(net, search, protocol, status) ==
    /\ ~(protocol # "All" /\ (~Has(net, "Type") \/ net.Type # protocol))
    /\ ~(status # "All" /\ (~Has(net, "Status") \/ net.Status # status))
    /\ ~(Lower(search) # <<>> /\ ~Contains(Searchable(net), Lower(search)))

\* `filtered` of populate_network_grid
GridFilter(conns, search, protocol, status) ==
    SelectSeq(conns, LAMBDA net : GridKeeps(net, search, protocol, status))

\* proc.get('Username', net.get('Username', ''))
NetUser(pmap, net) ==
    LET proc == MapGet(pmap, StrGetEmpty(net, "Pid"))
    IN Get(proc, "Username", Get(net, "Username", ""))

\* one pass of the loop of apply_table_filters: net is appended to filtered_data
TableKeeps(pmap, net, search, protocol, status, user) ==
    /\ ~(protocol # "All Protocols" /\ (~Has(net, "Type") \/ net.Type # protocol))
    /\ ~(status # "All Status" /\ (~Has(net, "Status") \/ net.Status # status))
    /\ ~(user # "All Users" /\ NetUser(pmap, net) # user)
    /\ ~(Lower(search) # <<>> /\ ~Contains(Searchable(net), Lower(search)))

RECURSIVE Reverse(_)
\* a list back to front
Reverse(l) == IF l = <<>> THEN <<>> ELSE Reverse(Tail(l)) \o <<Head(l)>>

\* TableFilter with insert(0, net) for append(net)
TableFilter_Prepend(conns, pmap, search, protocol, status, user) ==
    Reverse(SelectSeq(conns,
                      LAMBDA net : TableKeeps(pmap, net, search, protocol, status, user)))

\* self.filtered_data after the loop of apply_table_filters
TableFilter(conns, pmap, search, protocol, status, user) ==
    SelectSeq(conns, LAMBDA net : TableKeeps(pmap, net, search, protocol, status, user))

----------------------------------------------------------------------------
(* The process trees: populate_process_intel and populate_process_tree.    *)

\* Python's None where a text is expected (n.get('Name') of a record with no Name)
PyNone == <<"None">>

\* all_pids = set(str(p.get('Pid', '')) for p in self.process_data)
AllPids(procs) == {StrGetEmpty(procs[i], "Pid") : i \in DOMAIN procs}

\* children_map.get(pid, []): the records appended under the key pid, as indexes
\* into process_data; a record is appended under str(Ppid) unless that is ''
ChildrenOf(procs, pid) ==
    SelectSeq(Indexes(Len(procs)),
              LAMBDA i : /\ StrGetEmpty(procs[i], "Ppid") # <<>>
                         /\ StrGetEmpty(procs[i], "Ppid") = pid)

\* the condition of the comprehension that builds root_procs
IsRootProc(procs, p) ==
    \/ StrGetEmpty(p, "Ppid") \notin AllPids(procs)
    \/ ~Has(p, "Ppid")
    \/ p.Ppid = 0

\* root_procs, as indexes into process_data
RootProcs(procs) ==
    SelectSeq(Indexes(Len(procs)), LAMBDA i : IsRootProc(procs, procs[i]))

\* ConnsOf with the records in the reverse of their order in the list
ConnsOf_Reversed(conns, pid) ==
    LET found == SelectSeq(conns, LAMBDA n : StrGetNone(n, "Pid") = pid)
    IN [i \in 1..Len(found) |-> found[Len(found) + 1 - i]]

\* conns = [n for n in self.network_data if str(n.get('Pid')) == pid]
ConnsOf(conns, pid) == SelectSeq(conns, LAMBDA n : StrGetNone(n, "Pid") = pid)

\* auth and auth.get('Trusted') == 'trusted'
AuthTrusted(auth) ==
    /\ TruthyDict(auth)
    /\ Has(auth, "Trusted")
    /\ auth.Trusted = "trusted"

\* SampleTrusted with any associated connection deciding
SampleTrusted_Any(conns) ==
    \E i \in DOMAIN conns :
        Has(conns[i], "Authenticode") /\ AuthTrusted(conns[i].Authenticode)

\* the check mark of add_node: the first associated connection decides
SampleTrusted(conns) ==
    /\ conns # <<>>
    /\ Has(conns[1], "Authenticode")
    /\ AuthTrusted(conns[1].Authenticode)

\* the QTreeWidgetItem that add_node of populate_process_intel creates
IntelItem(parent, proc, conns) ==
    LET pid == StrGetEmpty(proc, "Pid")
    IN [proc     |-> proc,
        parent   |-> parent,
        pid      |-> pid,
        label    |-> Get(proc, "Name", <<>>),
        username |-> Get(proc, "Username", ""),
        nconn    |-> Len(ConnsOf(conns, pid)),
        trusted  |-> FALSE,
        hidden   |-> FALSE]

\* the QTreeWidgetItem that add_node of populate_process_tree creates
TreeItem(parent, proc, conns) ==
    LET pid == StrGetEmpty(proc, "Pid")
    IN [proc     |-> proc,
        parent   |-> parent,
        pid      |-> pid,
        label    |-> Get(proc, "Name", <<>>) \o <<" ", "(">> \o pid \o <<")">>,
        username |-> Get(proc, "Username", ""),
        nconn    |-> Len(ConnsOf(conns, pid)),
        trusted  |-> SampleTrusted(ConnsOf(conns, pid)),
        hidden   |-> FALSE]

RECURSIVE AddNode(_, _, _, _, _)
RECURSIVE AddNodes(_, _, _, _, _)
\* add_node(parent, proc): the item is created and attached, then add_node runs
\* for every record of children_map under its pid. env holds what the closure
\* reads (process_data, network_data, which tree); st.nodes are the items
\* created so far and st.error says that a call exceeded the recursion limit
\* (RecursionError), which unwinds every enclosing call.
AddNode(env, st, parent, idx, depth) ==
    IF depth > RecursionLimit
    THEN [st EXCEPT !.error = TRUE]
    ELSE LET proc == env.procs[idx]
             item == IF env.intel THEN IntelItem(parent, proc, env.conns)
                     ELSE TreeItem(parent, proc, env.conns)
             st1  == [st EXCEPT !.nodes = Append(@, item)]
         IN AddNodes(env, st1, Len(st1.nodes),
                     ChildrenOf(env.procs, item.pid), depth + 1)

\* `for child in ...: add_node(item, child)`, and with parent = 0 (None) the
\* loop over root_procs
AddNodes(env, st, parent, kids, depth) ==
    IF kids = <<>> \/ st.error THEN st
    ELSE AddNodes(env, AddNode(env, st, parent, Head(kids), depth),
                  parent, Tail(kids), depth)

\* populate_process_intel: the items of the cleared intel_tree, and whether
\* the construction raised
PopulateProcessIntel(procs, conns) ==
    AddNodes([procs |-> procs, conns |-> conns, intel |-> TRUE],
             [nodes |-> <<>>, error |-> FALSE], 0, RootProcs(procs), 1)

\* populate_process_tree: the items of the cleared process_tree, and whether
\* the construction raised
PopulateProcessTree(procs, conns) ==
    AddNodes([procs |-> procs, conns |-> conns, intel |-> FALSE],
             [nodes |-> <<>>, error |-> FALSE], 0, RootProcs(procs), 1)

----------------------------------------------------------------------------
(* populate_security_analysis and populate_timeline.                       *)

\* not n.get('Authenticode') or n.get('Authenticode', {}).get('Trusted') != 'trusted'
IsUnsigned(n) == ~(Has(n, "Authenticode") /\ AuthTrusted(n.Authenticode))

\* set(n.get('Name') for n in unsigned)
UnsignedNames(conns) ==
    {Get(conns[i], "Name", PyNone) : i \in {j \in DOMAIN conns : IsUnsigned(conns[j])}}

\* sorted() over names of which one is None and another a str raises TypeError
SecurityRaises(conns) ==
    PyNone \in UnsignedNames(conns) /\ Cardinality(UnsignedNames(conns)) > 1

\* the UserRole data of the threat list's items, in order
ThreatList(conns) ==
    IF UnsignedNames(conns) = {PyNone} THEN <<PyNone>>
    ELSE SortedTexts(UnsignedNames(conns))

\* position of a string in code point order
StrRank(s) == CHOOSE i \in 1..Len(CodeOrder) : CodeOrder[i] = s

RECURSIVE SortedByStart(_, _)
\* sorted(self.process_data, key=lambda x: x.get('StartTime', ''), reverse=True):
\* greatest key first, equal keys in their original order (todo is a set of indexes)
SortedByStart(procs, todo) ==
    IF todo = {} THEN <<>>
    ELSE LET key(i) == StrRank(Get(procs[i], "StartTime", ""))
             m == CHOOSE i \in todo :
                    \A j \in todo \ {i} :
                        key(i) > key(j) \/ (key(i) = key(j) /\ i < j)
         IN <<procs[m]>> \o SortedByStart(procs, todo \ {m})

\* start of populate_timeline: proc.get('StartTime', '')[:19].replace('T', ' '),
\* '' for a record whose StartTime is absent or empty
StartText(proc) ==
    LET s == Get(proc, "StartTime", "")
    IN CASE s = "0001-01-01T00:00:00Z" -> "0001-01-01 00:00:00"
         [] s = "2024-01-01T00:00:00Z" -> "2024-01-01 00:00:00"
         [] s = "2024-01-01T00:30:00Z" -> "2024-01-01 00:30:00"
         [] s = "2024-01-01T02:00:00Z" -> "2024-01-01 02:00:00"
         [] s = "2024-01-03T05:00:00Z" -> "2024-01-03 05:00:00"
         [] OTHER -> s

\* a row of timeline_table no cell of which holds an item
EmptyRow == [proc |-> JNull, pid |-> JNull, nconn |-> JNull, listening |-> JNull,
             established |-> JNull]

\* self.timeline_table.setRowCount(n): rows go or empty rows come at the end
SetRowCount(rows, n) == [i \in 1..n |-> IF i <= Len(rows) THEN rows[i] ELSE EmptyRow]

\* the rows of a table after row `from` has moved to position `to`
MoveRow(rows, from, to) ==
    LET rest == SubSeq(rows, 1, from - 1) \o SubSeq(rows, from + 1, Len(rows))
    IN SubSeq(rest, 1, to - 1) \o <<rows[from]>> \o SubSeq(rest, to, Len(rest))

\* self.timeline_table.setItem(row, 0, time_item) with sorting enabled on
\* column 0, descending: the item replaces the one of the row, and the row,
\* with the cells it holds, moves above the first row whose time text is not
\* greater than the item's; the rows with no time item are the last ones
SetTimeItem(rows, row, proc) ==
    LET set    == [rows EXCEPT ![row].proc = proc]
        filled == {i \in DOMAIN set : \A j \in 1..i : set[j].proc # JNull}
        others == SelectSeq(Indexes(Len(set)), LAMBDA i : i \in filled /\ i # row)
        key(p) == StrRank(StartText(p))
        above  == {k \in DOMAIN others :
                      \A j \in 1..k : key(set[others[j]].proc) > key(proc)}
    IN MoveRow(set, row, Cardinality(above) + 1)

\* setItem(row, 3, pid), (row, 5, len(conns)), (row, 6, listening) and
\* (row, 7, established) of populate_timeline
SetTimelineCells(rows, row, proc, conns) ==
    LET cs == ConnsOf(conns, StrGetEmpty(proc, "Pid"))
    IN [rows EXCEPT ![row] =
            [proc        |-> @.proc,
             pid         |-> StrGetEmpty(proc, "Pid"),
             nconn       |-> Len(cs),
             listening   |-> Len(SelectSeq(cs, LAMBDA c : Get(c, "Status", "") = "LISTEN")),
             established |-> Len(SelectSeq(cs, LAMBDA c : Get(c, "Status", "") = "ESTAB"))]]

RECURSIVE WriteTimeline(_, _, _, _)
\* the loop of populate_timeline from `row` on: the time item first, which
\* moves the row, then the other cells, written to the row that has the index now
WriteTimeline(rows, sorted_procs, conns, row) ==
    IF row > Len(sorted_procs) THEN rows
    ELSE WriteTimeline(SetTimelineCells(SetTimeItem(rows, row, sorted_procs[row]),
                                        row, sorted_procs[row], conns),
                       sorted_procs, conns, row + 1)

\* populate_timeline on a table that holds `rows`
PopulateTimeline(rows, procs, conns) ==
    LET sorted_procs == SortedByStart(procs, DOMAIN procs)
    IN WriteTimeline(SetRowCount(rows, Len(sorted_procs)), sorted_procs, conns, 1)

\* the rows populate_timeline leaves in the table that initUI built
TimelineRows(procs, conns) == PopulateTimeline(<<>>, procs, conns)

----------------------------------------------------------------------------
(* populate_dashboard, the cards and the external table of                 *)
(* populate_security_analysis, calculate_uptime and update_advanced_table. *)

RECURSIVE LStrip(_)
\* str.lstrip() on texts whose only whitespace is the space
LStrip(t) == IF t # <<>> /\ Head(t) = " " THEN LStrip(Tail(t)) ELSE t

\* str.strip()
Strip(t) == Reverse(LStrip(Reverse(LStrip(t))))

\* the condition of `external`, in populate_dashboard and again in
\* populate_security_analysis:
\* n.get('Status') == 'ESTAB' and n.get('Raddr', '').strip()
\* and not n.get('Raddr', '').startswith('127.')
\* and not n.get('Raddr', '').startswith('::1')
IsExternal(n) ==
    /\ Has(n, "Status") /\ n.Status = "ESTAB"
    /\ Strip(Get(n, "Raddr", <<>>)) # <<>>
    /\ ~StartsWith(Get(n, "Raddr", <<>>), <<"1", "2", "7", ".">>)
    /\ ~StartsWith(Get(n, "Raddr", <<>>), <<":", ":", "1">>)

\* the condition of `unsigned` in populate_dashboard:
\* not n.get('Authenticode') or n.get('Authenticode', {}).get('Trusted') != 'trusted'
DashUnsigned(n) ==
    \/ ~Has(n, "Authenticode")
    \/ ~TruthyDict(n.Authenticode)
    \/ ~Has(n.Authenticode, "Trusted")
    \/ n.Authenticode.Trusted # "trusted"

\* procs_with_net = len(set(str(n.get('Pid')) for n in self.network_data))
ProcsWithNet(conns) == Cardinality({StrGetNone(conns[i], "Pid") : i \in DOMAIN conns})

\* remote_ips of populate_dashboard
RemoteIps(conns) ==
    {Get(conns[i], "Raddr", <<>>) : i \in DOMAIN conns}
        \ {<<>>, <<"0", ".", "0", ".", "0", ".", "0">>, <<":", ":">>}

RECURSIVE SortedByTimestamp(_, _)
\* sorted(self.network_data, key=lambda x: x.get('Timestamp', ''), reverse=True):
\* greatest key first, equal keys in their original order (todo is a set of
\* indexes)
SortedByTimestamp(conns, todo) ==
    IF todo = {} THEN <<>>
    ELSE LET key(i) == StrRank(Get(conns[i], "Timestamp", ""))
             m == CHOOSE i \in todo :
                    \A j \in todo \ {i} :
                        key(i) > key(j) \/ (key(i) = key(j) /\ i < j)
         IN <<conns[m]>> \o SortedByTimestamp(conns, todo \ {m})

\* `recent` of populate_dashboard: the first 15 of the records sorted by
\* Timestamp, latest first
Recent(conns) ==
    LET sorted == SortedByTimestamp(conns, DOMAIN conns)
    IN SubSeq(sorted, 1, IF Len(sorted) < 15 THEN Len(sorted) ELSE 15)

\* what populate_dashboard puts on the metric cards and in the activity feed
Dashboard(procs, conns) ==
    [total_conns    |-> Len(conns),
     total_procs    |-> Len(procs),
     tcp_count      |-> Len(SelectSeq(conns, LAMBDA n : Get(n, "Type", "") = "TCP")),
     udp_count      |-> Len(SelectSeq(conns, LAMBDA n : Get(n, "Type", "") = "UDP")),
     listening      |-> Len(SelectSeq(conns, LAMBDA n : Get(n, "Status", "") = "LISTEN")),
     established    |-> Len(SelectSeq(conns, LAMBDA n : Get(n, "Status", "") = "ESTAB")),
     external       |-> Len(SelectSeq(conns, IsExternal)),
     procs_with_net |-> ProcsWithNet(conns),
     unsigned       |-> Len(SelectSeq(conns, DashUnsigned)),
     remote_ips     |-> Cardinality(RemoteIps(conns)),
     activity       |-> Recent(conns)]

\* the metric cards before populate_dashboard has run
NoDashboard == [total_conns |-> 0, total_procs |-> 0, tcp_count |-> 0, udp_count |-> 0,
                listening |-> 0, established |-> 0, external |-> 0,
                procs_with_net |-> 0, unsigned |-> 0, remote_ips |-> 0,
                activity |-> <<>>]

\* `cards` of populate_security_analysis; shown is FALSE while the layout is
\* still empty
SecurityCards(conns) ==
    [shown      |-> TRUE,
     unsigned   |-> Cardinality(UnsignedNames(conns)),
     external   |-> Len(SelectSeq(conns, IsExternal)),
     high_ports |-> Len(SelectSeq(conns, LAMBDA n : Get(n, "Lport", 0) > 49152))]

NoSecurityCards == [shown |-> FALSE, unsigned |-> 0, external |-> 0, high_ports |-> 0]

\* the rows populate_security_analysis writes to external_table
ExternalRows(conns, pmap) ==
    LET external == SelectSeq(conns, IsExternal)
    IN [i \in DOMAIN external |->
            [conn     |-> external[i],
             pid      |-> StrGetEmpty(external[i], "Pid"),
             username |-> Get(MapGet(pmap, StrGetEmpty(external[i], "Pid")),
                              "Username", "")]]

\* datetime.fromisoformat(s.replace('Z', '+00:00')) succeeds on the model's
\* timestamps
IsoParses(s) == s \in {"0001-01-01T00:00:00Z", "2024-01-01T00:00:00Z",
                       "2024-01-01T00:30:00Z", "2024-01-01T02:00:00Z",
                       "2024-01-03T05:00:00Z"}

\* the instant a timestamp of the model names, in seconds since
\* 2024-01-01T00:00:00Z, the origin of `now`
IsoSeconds(s) ==
    CASE s = "2024-01-01T00:00:00Z" -> 0
      [] s = "2024-01-01T00:30:00Z" -> 1800
      [] s = "2024-01-01T02:00:00Z" -> 7200
      [] s = "2024-01-03T05:00:00Z" -> 190800

NotAvailable == <<"N", "/", "A">>

\* calculate_uptime(start_time_str) when datetime.now() is t. The timedelta
\* keeps days = floor(delta / 86400) and 0 <= seconds < 86400.
calculate_uptime(start_time_str, t) ==
    IF start_time_str = "" \/ start_time_str = "0001-01-01T00:00:00Z"
    THEN NotAvailable
    ELSE IF ~IsoParses(start_time_str)
    THEN NotAvailable
    ELSE LET delta     == t - IsoSeconds(start_time_str)
             days      == delta \div 86400
             seconds   == delta % 86400
             hours     == seconds \div 3600
             remainder == seconds % 3600
             minutes   == remainder \div 60
         IN IF days > 0
            THEN StrNat(days) \o <<"d", " ">> \o StrNat(hours) \o <<"h">>
            ELSE IF hours > 0
            THEN StrNat(hours) \o <<"h", " ">> \o StrNat(minutes) \o <<"m">>
            ELSE StrNat(minutes) \o <<"m">>

\* TableTrusted with a check mark for every row that has an Authenticode
TableTrusted_AnyAuthenticode(net) ==
    Has(net, "Authenticode") /\ TruthyDict(net.Authenticode)

\* the check mark of column 12 of update_advanced_table:
\* auth = net.get('Authenticode'); auth and auth.get('Trusted') == 'trusted'
TableTrusted(net) == Has(net, "Authenticode") /\ AuthTrusted(net.Authenticode)

RECURSIVE SortedByPid(_, _)
\* self.advanced_table.setSortingEnabled(True): the rows are sorted on column
\* 0, the PID text, greatest text first, rows of equal text in the order they
\* were written (todo is a set of indexes)
SortedByPid(rows, todo) ==
    IF todo = {} THEN <<>>
    ELSE LET m == CHOOSE i \in todo :
                    \A j \in todo \ {i} :
                        \/ TextLess(rows[j].pid, rows[i].pid)
                        \/ (rows[j].pid = rows[i].pid /\ i < j)
         IN <<rows[m]>> \o SortedByPid(rows, todo \ {m})

\* the rows of the table after update_advanced_table: one row is written for
\* every record of self.filtered_data with sorting off, then sorting is
\* turned on again
UpdateAdvancedTable(fd, pmap, t) ==
    LET written == [i \in DOMAIN fd |->
                      LET net  == fd[i]
                          pid  == StrGetEmpty(net, "Pid")
                          proc == MapGet(pmap, pid)
                      IN [net      |-> net,
                          pid      |-> pid,
                          username |-> Get(proc, "Username", Get(net, "Username", "")),
                          uptime   |-> calculate_uptime(Get(proc, "StartTime", ""), t),
                          trusted  |-> TableTrusted(net)]]
    IN SortedByPid(written, DOMAIN written)

----------------------------------------------------------------------------
(* The widgets' state after __init__: initUI, then load_data on the records *)
(* read from the JSON files, then the status bar's first message.          *)

\* tab_names of on_tab_changed
TabNames == <<"Dashboard", "Network Grid", "Process Intel", "Security",
              "Process Tree", "Timeline", "Table View">>

\* what the detail pane of the intel tab shows before any click
NoDetails == [proc |-> EmptyDict, pid |-> <<>>, conns |-> <<>>]

\* what load_data takes a file for, by the keys of the record on its first line
FileKind(file) ==
    IF file = <<>> THEN "skipped"
    ELSE IF Has(file[1], "Laddr") /\ Has(file[1], "Raddr") THEN "network"
    ELSE IF Has(file[1], "Ppid") /\ Has(file[1], "CommandLine") THEN "process"
    ELSE "skipped"

RECURSIVE ReadFiles(_, _)
\* the records load_data appends from the files of one kind, the files in the
\* order glob.glob gives them
ReadFiles(files, kind) ==
    IF files = <<>> THEN <<>>
    ELSE (IF FileKind(Head(files)) = kind THEN Head(files) ELSE <<>>)
         \o ReadFiles(Tail(files), kind)

\* load_data on freshly built widgets, the directory holding one file with
\* the records proc_file and one with the records conn_file. A file is read
\* as the kind its first record shows, or not at all. The views are populated
\* in the order dashboard, grid, process intel, security, process tree,
\* timeline, table; the first populate call that raises ends the try block,
\* so the views after it keep what initUI gave them, and the except branch
\* reports the error.
LoadedInit(proc_file, conn_file) ==
    LET procs    == ReadFiles(<<proc_file, conn_file>>, "process")
        conns    == ReadFiles(<<proc_file, conn_file>>, "network")
        intel    == PopulateProcessIntel(procs, conns)
        sec_err  == ~intel.error /\ SecurityRaises(conns)
        tree     == PopulateProcessTree(procs, conns)
        tree_run == ~intel.error /\ ~sec_err
        rest_run == tree_run /\ ~tree.error
    IN /\ network_data = conns
       /\ process_data = procs
       /\ process_map = BuildProcessMap(procs)
       /\ filtered_data = conns
       /\ grid_search = <<>>
       /\ grid_protocol = "All"
       /\ grid_status = "All"
       /\ grid_status_items = <<"All">> \o LoadStatuses(conns)
       /\ grid_filtered = GridFilter(conns, <<>>, "All", "All")
       /\ table_search = <<>>
       /\ table_protocol = "All Protocols"
       /\ table_status = "All Status"
       /\ table_user = "All Users"
       /\ table_status_items = <<"All Status">> \o LoadStatuses(conns)
       /\ table_user_items = <<"All Users">> \o LoadUsers(procs)
       /\ tabs_index = 0
       /\ breadcrumb = TabNames[1]
       /\ status_message = [msg |-> "Ready", arg |-> <<>>]
       /\ stack = <<>>
       /\ dialog = <<>>
       /\ invoked = 0
       /\ tree_search = <<>>
       /\ intel_tree = intel.nodes
       /\ intel_selected = 0
       /\ intel_details = NoDetails
       /\ threat_list = IF intel.error \/ sec_err THEN <<>> ELSE ThreatList(conns)
       /\ process_tree = IF tree_run THEN tree.nodes ELSE <<>>
       /\ timeline_rows = IF rest_run THEN TimelineRows(procs, conns) ELSE <<>>
       /\ load_error = (intel.error \/ sec_err \/ (tree_run /\ tree.error))
       /\ dashboard = Dashboard(procs, conns)
       /\ security_cards = IF intel.error THEN NoSecurityCards ELSE SecurityCards(conns)
       /\ external_table = IF intel.error \/ sec_err THEN <<>>
                           ELSE ExternalRows(conns, BuildProcessMap(procs))
       /\ advanced_table = IF rest_run
                           THEN UpdateAdvancedTable(conns, BuildProcessMap(procs), now)
                           ELSE <<>>

----------------------------------------------------------------------------
(* Handlers.                                                               *)

\* self.tabs.setCurrentIndex(i); currentChanged runs on_tab_changed when the
\* index changes
SetCurrentIndex(i) ==
    /\ tabs_index' = i
    /\ breadcrumb' = IF i # tabs_index /\ i < Len(TabNames)
                     THEN TabNames[i + 1] ELSE breadcrumb

\* SetGridSearch with the grid's result kept in self.filtered_data as well
SetGridSearch_SharedList(t) ==
    /\ t # grid_search
    /\ grid_search' = t
    /\ grid_filtered' = GridFilter(network_data, t, grid_protocol, grid_status)
    /\ filtered_data' = grid_filtered'
    /\ advanced_table' = advanced_table
    /\ UNCHANGED <<now, busVars, tree_search, dataVars, grid_protocol, grid_status,
                   grid_status_items, tableVars, navVars, status_message,
                   intel_selected, intel_details, viewVars>>

\* the user edits grid_search: textChanged -> update_network_grid
SetGridSearch(t) ==
    /\ t # grid_search
    /\ grid_search' = t
    /\ grid_filtered' = GridFilter(network_data, t, grid_protocol, grid_status)
    /\ UNCHANGED <<now, busVars, tree_search, dataVars, filtered_data, advanced_table, grid_protocol, grid_status,
                   grid_status_items, tableVars, navVars, status_message,
                   intel_selected, intel_details, viewVars>>

\* the user picks a protocol in the grid: currentTextChanged -> update_network_grid
SetGridProtocol(p) ==
    /\ p # grid_protocol
    /\ grid_protocol' = p
    /\ grid_filtered' = GridFilter(network_data, grid_search, p, grid_status)
    /\ UNCHANGED <<now, busVars, tree_search, dataVars, filtered_data, advanced_table, grid_search, grid_status,
                   grid_status_items, tableVars, navVars, status_message,
                   intel_selected, intel_details, viewVars>>

\* the user picks a status in the grid: currentTextChanged -> update_network_grid
SetGridStatus(s) ==
    /\ s \in Range(grid_status_items)
    /\ s # grid_status
    /\ grid_status' = s
    /\ grid_filtered' = GridFilter(network_data, grid_search, grid_protocol, s)
    /\ UNCHANGED <<now, busVars, tree_search, dataVars, filtered_data, advanced_table, grid_search, grid_protocol,
                   grid_status_items, tableVars, navVars, status_message,
                   intel_selected, intel_details, viewVars>>

\* clear_grid_filters: each of the three setters that changes its widget runs
\* update_network_grid; the last such run sees the three cleared widgets
ClearGridFilters ==
    LET changed == \/ grid_search # <<>>
                   \/ grid_protocol # "All"
                   \/ grid_status # grid_status_items[1]
    IN /\ grid_search' = <<>>
       /\ grid_protocol' = "All"
       /\ grid_status' = grid_status_items[1]
       /\ grid_filtered' = IF changed
                           THEN GridFilter(network_data, <<>>, "All", grid_status_items[1])
                           ELSE grid_filtered
       /\ UNCHANGED <<now, busVars, tree_search, dataVars, filtered_data, advanced_table, grid_status_items, tableVars,
                      navVars, status_message, intel_selected, intel_details,
                      viewVars>>

\* the user edits table_search: textChanged -> apply_table_filters
SetTableSearch(t) ==
    /\ t # table_search
    /\ table_search' = t
    /\ filtered_data' = TableFilter(network_data, process_map, t, table_protocol,
                                    table_status, table_user)
    /\ advanced_table' = UpdateAdvancedTable(filtered_data', process_map, now)
    /\ UNCHANGED <<now, busVars, tree_search, dataVars, gridVars, grid_filtered, table_protocol, table_status,
                   table_user, table_status_items, table_user_items, navVars,
                   status_message, intel_selected, intel_details, viewVars>>

\* the user picks a protocol in the table: currentTextChanged -> apply_table_filters
SetTableProtocol(p) ==
    /\ p # table_protocol
    /\ table_protocol' = p
    /\ filtered_data' = TableFilter(network_data, process_map, table_search, p,
                                    table_status, table_user)
    /\ advanced_table' = UpdateAdvancedTable(filtered_data', process_map, now)
    /\ UNCHANGED <<now, busVars, tree_search, dataVars, gridVars, grid_filtered, table_search, table_status,
                   table_user, table_status_items, table_user_items, navVars,
                   status_message, intel_selected, intel_details, viewVars>>

\* the user picks a status in the table: currentTextChanged -> apply_table_filters
SetTableStatus(s) ==
    /\ s \in Range(table_status_items)
    /\ s # table_status
    /\ table_status' = s
    /\ filtered_data' = TableFilter(network_data, process_map, table_search,
                                    table_protocol, s, table_user)
    /\ advanced_table' = UpdateAdvancedTable(filtered_data', process_map, now)
    /\ UNCHANGED <<now, busVars, tree_search, dataVars, gridVars, grid_filtered, table_search, table_protocol,
                   table_user, table_status_items, table_user_items, navVars,
                   status_message, intel_selected, intel_details, viewVars>>

\* the user picks a user in the table: currentTextChanged -> apply_table_filters
SetTableUser(u) ==
    /\ u \in Range(table_user_items)
    /\ u # table_user
    /\ table_user' = u
    /\ filtered_data' = TableFilter(network_data, process_map, table_search,
                                    table_protocol, table_status, u)
    /\ advanced_table' = UpdateAdvancedTable(filtered_data', process_map, now)
    /\ UNCHANGED <<now, busVars, tree_search, dataVars, gridVars, grid_filtered, table_search, table_protocol,
                   table_status, table_status_items, table_user_items, navVars,
                   status_message, intel_selected, intel_details, viewVars>>

\* ClearTableFilters without the reset of table_user
ClearTableFilters_KeepsUser ==
    LET changed == \/ table_search # <<>>
                   \/ table_protocol # "All Protocols"
                   \/ table_status # table_status_items[1]
    IN /\ table_search' = <<>>
       /\ table_protocol' = "All Protocols"
       /\ table_status' = table_status_items[1]
       /\ filtered_data' = IF changed
                           THEN TableFilter(network_data, process_map, <<>>,
                                            "All Protocols", table_status_items[1],
                                            table_user)
                           ELSE filtered_data
       /\ advanced_table' = IF changed
                            THEN UpdateAdvancedTable(filtered_data', process_map, now)
                            ELSE advanced_table
       /\ UNCHANGED <<now, busVars, tree_search, dataVars, gridVars, grid_filtered, table_user, table_status_items,
                      table_user_items, navVars, status_message, intel_selected,
                      intel_details, viewVars>>

\* clear_table_filters: each of the four setters that changes its widget runs
\* apply_table_filters; the last such run sees the four cleared widgets
ClearTableFilters ==
    LET changed == \/ table_search # <<>>
                   \/ table_protocol # "All Protocols"
                   \/ table_status # table_status_items[1]
                   \/ table_user # table_user_items[1]
    IN /\ table_search' = <<>>
       /\ table_protocol' = "All Protocols"
       /\ table_status' = table_status_items[1]
       /\ table_user' = table_user_items[1]
       /\ filtered_data' = IF changed
                           THEN TableFilter(network_data, process_map, <<>>,
                                            "All Protocols", table_status_items[1],
                                            table_user_items[1])
                           ELSE filtered_data
       /\ advanced_table' = IF changed
                            THEN UpdateAdvancedTable(filtered_data', process_map, now)
                            ELSE advanced_table
       /\ UNCHANGED <<now, busVars, tree_search, dataVars, gridVars, grid_filtered, table_status_items,
                      table_user_items, navVars, status_message, intel_selected,
                      intel_details, viewVars>>

----------------------------------------------------------------------------
(* The signals and what emits them.                                        *)

\* OnFilterByProcess with the grid recomputed before the text is set
OnFilterByProcess_StaleText(proc_name) ==
    /\ grid_search' = proc_name
    /\ grid_filtered' = GridFilter(network_data, grid_search, grid_protocol, grid_status)
    /\ status_message' = [msg |-> "Filtered by process", arg |-> proc_name]

\* on_filter_by_process(proc_name), the slot of signals.filter_by_process:
\* setText, update_network_grid, and the status bar's message
OnFilterByProcess(proc_name) ==
    /\ grid_search' = proc_name
    /\ grid_filtered' = GridFilter(network_data, proc_name, grid_protocol, grid_status)
    /\ status_message' = [msg |-> "Filtered by process", arg |-> proc_name]

\* on_tree_double_clicked(item) for item i of the process tree
OnTreeDoubleClicked(i) ==
    /\ i \in DOMAIN process_tree
    /\ process_tree[i].proc # EmptyDict
    /\ OnFilterByProcess(Get(process_tree[i].proc, "Name", <<>>))
    /\ SetCurrentIndex(1)
    /\ UNCHANGED <<now, busVars, tree_search, dataVars, filtered_data, advanced_table, grid_protocol, grid_status,
                   grid_status_items, tableVars, intel_selected, intel_details,
                   viewVars>>

\* on_threat_clicked(item) for item i of the threat list
OnThreatClicked(i) ==
    /\ i \in DOMAIN threat_list
    /\ threat_list[i] # PyNone
    /\ threat_list[i] # <<>>
    /\ OnFilterByProcess(threat_list[i])
    /\ SetCurrentIndex(1)
    /\ UNCHANGED <<now, busVars, tree_search, dataVars, filtered_data, advanced_table, grid_protocol, grid_status,
                   grid_status_items, tableVars, intel_selected, intel_details,
                   viewVars>>

\* a click on item i of the intel tree selects it, and itemClicked runs
\* on_intel_tree_clicked(item)
OnIntelTreeClicked(i) ==
    /\ i \in DOMAIN intel_tree
    /\ intel_selected' = i
    /\ LET proc == intel_tree[i].proc
           pid  == StrGetEmpty(proc, "Pid")
       IN IF proc = EmptyDict
          THEN UNCHANGED <<intel_details, status_message>>
          ELSE /\ intel_details' = [proc  |-> proc,
                                    pid   |-> pid,
                                    conns |-> ConnsOf(network_data, pid)]
               /\ status_message' =
                      [msg |-> "Selected",
                       arg |-> Get(proc, "Name", NoneText) \o <<" ", "(">> \o pid \o <<")">>]
    /\ UNCHANGED <<now, busVars, tree_search, dataVars, filtered_data, advanced_table, gridVars, grid_filtered, tableVars,
                   navVars, viewVars>>

\* the item select_process_in_intel_tree(pid) stops at: the first item of the
\* tree, in the iterator's order, whose PID column is pid; 0 when there is none
FirstIntelItem(pid) ==
    IF \E i \in DOMAIN intel_tree : intel_tree[i].pid = pid
    THEN CHOOSE i \in DOMAIN intel_tree :
             /\ intel_tree[i].pid = pid
             /\ \A j \in 1..(i - 1) : intel_tree[j].pid # pid
    ELSE 0

\* what on_timeline_clicked and on_table_double_clicked do with the pid of the
\* row: tabs.setCurrentIndex(2), select_process_in_intel_tree(pid), which
\* makes the item current and calls on_intel_tree_clicked(item), and then the
\* status bar's message, which replaces the one of on_intel_tree_clicked
ViewProcess(pid) ==
    LET i    == FirstIntelItem(pid)
        proc == intel_tree[i].proc
    IN /\ SetCurrentIndex(2)
       /\ intel_selected' = IF i = 0 THEN intel_selected ELSE i
       /\ intel_details' = IF i = 0 \/ proc = EmptyDict THEN intel_details
                           ELSE [proc  |-> proc,
                                 pid   |-> StrGetEmpty(proc, "Pid"),
                                 conns |-> ConnsOf(network_data, StrGetEmpty(proc, "Pid"))]
       /\ status_message' = [msg |-> "Viewing process PID", arg |-> pid]
       /\ UNCHANGED <<now, busVars, tree_search, dataVars, filtered_data, advanced_table,
                      gridVars, grid_filtered, tableVars, viewVars>>

\* a double click on a row of timeline_table: on_timeline_clicked(row, col)
OnTimelineClicked(row) ==
    /\ row \in DOMAIN timeline_rows
    /\ TruthyDict(timeline_rows[row].proc)
    /\ ViewProcess(StrGetEmpty(timeline_rows[row].proc, "Pid"))

\* a double click on a row of advanced_table: on_table_double_clicked(row, col)
OnTableDoubleClicked(row) ==
    /\ row \in DOMAIN advanced_table
    /\ TruthyDict(advanced_table[row].net)
    /\ ViewProcess(StrGetEmpty(advanced_table[row].net, "Pid"))

\* filter_by_selected_process, the slot of the intel tab's three buttons
FilterBySelectedProcess ==
    /\ intel_selected \in DOMAIN intel_tree
    /\ intel_tree[intel_selected].proc # EmptyDict
    /\ OnFilterByProcess(Get(intel_tree[intel_selected].proc, "Name", <<>>))
    /\ SetCurrentIndex(1)
    /\ UNCHANGED <<now, busVars, tree_search, dataVars, filtered_data, advanced_table, grid_protocol, grid_status,
                   grid_status_items, tableVars, intel_selected, intel_details,
                   viewVars>>

\* QComboBox.setCurrentText on a combo box that is not editable: the current
\* item becomes the first item with that text, and stays when there is none
ComboSetCurrentText(items, current, text) ==
    IF text \in Range(items) THEN text ELSE current

\* signals.filter_by_user.emit(username): on_filter_by_user(username) runs
\* setCurrentText and apply_table_filters
OnFilterByUser(username) ==
    /\ table_user' = ComboSetCurrentText(table_user_items, table_user, username)
    /\ filtered_data' = TableFilter(network_data, process_map, table_search,
                                    table_protocol, table_status, table_user')
    /\ advanced_table' = UpdateAdvancedTable(filtered_data', process_map, now)
    /\ UNCHANGED <<now, busVars, tree_search, dataVars, gridVars, grid_filtered, table_search, table_protocol,
                   table_status, table_status_items, table_user_items, navVars,
                   status_message, intel_selected, intel_details, viewVars>>

\* OnHighlightUntrusted with the message of on_highlight_external
OnHighlightUntrusted_AsExternal ==
    status_message' = [msg |-> "Viewing external connections", arg |-> <<>>]

\* on_highlight_untrusted, the slot of signals.highlight_untrusted
OnHighlightUntrusted ==
    status_message' = [msg |-> "Viewing untrusted processes", arg |-> <<>>]

\* on_highlight_external, the slot of signals.highlight_external
OnHighlightExternal ==
    status_message' = [msg |-> "Viewing external connections", arg |-> <<>>]

\* a click on the Unsigned/Untrusted card: goto_security of populate_dashboard
GotoSecurity ==
    /\ SetCurrentIndex(3)
    /\ OnHighlightUntrusted
    /\ UNCHANGED <<now, busVars, tree_search, dataVars, filtered_data, advanced_table, gridVars,
                   grid_filtered, tableVars, intel_selected, intel_details, viewVars>>

\* a click on the Unique Remote IPs card: goto_external of populate_dashboard
GotoExternal ==
    /\ SetCurrentIndex(3)
    /\ OnHighlightExternal
    /\ UNCHANGED <<now, busVars, tree_search, dataVars, filtered_data, advanced_table, gridVars,
                   grid_filtered, tableVars, intel_selected, intel_details, viewVars>>

\* a click on the Total Connections card (i = 6) or the Total Processes card
\* (i = 2): lambda: self.tabs.setCurrentIndex(i)
CardSetsTab(i) ==
    /\ SetCurrentIndex(i)
    /\ UNCHANGED <<now, busVars, tree_search, dataVars, filtered_data, advanced_table, gridVars,
                   grid_filtered, tableVars, status_message, intel_selected,
                   intel_details, viewVars>>

\* filter_by_status(status), the action of the Listening Ports card and of the
\* Established card
filter_by_status(status) ==
    /\ table_status' = ComboSetCurrentText(table_status_items, table_status, status)
    /\ filtered_data' = TableFilter(network_data, process_map, table_search,
                                    table_protocol, table_status', table_user)
    /\ advanced_table' = UpdateAdvancedTable(filtered_data', process_map, now)
    /\ SetCurrentIndex(6)
    /\ status_message' = [msg |-> "Filtered by status", arg |-> <<status>>]
    /\ UNCHANGED <<now, busVars, tree_search, dataVars, gridVars, grid_filtered, table_search,
                   table_protocol, table_user, table_status_items, table_user_items,
                   intel_selected, intel_details, viewVars>>

\* load_data run on the window as it is, the files now holding proc_file and
\* conn_file. addItems extends the three selectors, whose current items
\* stay; the views are repopulated in order until a populate call raises, and
\* a view that was not reached keeps what it showed.
LoadData(proc_file, conn_file) ==
    LET procs    == ReadFiles(<<proc_file, conn_file>>, "process")
        conns    == ReadFiles(<<proc_file, conn_file>>, "network")
        pmap     == BuildProcessMap(procs)
        intel    == PopulateProcessIntel(procs, conns)
        sec_run  == ~intel.error
        sec_err  == sec_run /\ SecurityRaises(conns)
        tree     == PopulateProcessTree(procs, conns)
        tree_run == sec_run /\ ~sec_err
        rest_run == tree_run /\ ~tree.error
    IN /\ Len(grid_status_items) + Len(LoadStatuses(conns)) <= MaxItems
       /\ Len(table_user_items) + Len(LoadUsers(procs)) <= MaxItems
       /\ network_data' = conns
       /\ process_data' = procs
       /\ process_map' = pmap
       /\ filtered_data' = conns
       /\ grid_status_items' = grid_status_items \o LoadStatuses(conns)
       /\ table_status_items' = table_status_items \o LoadStatuses(conns)
       /\ table_user_items' = table_user_items \o LoadUsers(procs)
       /\ dashboard' = Dashboard(procs, conns)
       /\ grid_filtered' = GridFilter(conns, grid_search, grid_protocol, grid_status)
       /\ intel_tree' = intel.nodes
       /\ intel_selected' = 0
       /\ security_cards' = IF sec_run THEN SecurityCards(conns) ELSE security_cards
       /\ threat_list' = IF ~sec_run THEN threat_list
                         ELSE IF sec_err THEN <<>> ELSE ThreatList(conns)
       /\ external_table' = IF tree_run THEN ExternalRows(conns, pmap)
                            ELSE external_table
       /\ process_tree' = IF tree_run THEN tree.nodes ELSE process_tree
       /\ timeline_rows' = IF rest_run THEN PopulateTimeline(timeline_rows, procs, conns)
                           ELSE timeline_rows
       /\ advanced_table' = IF rest_run THEN UpdateAdvancedTable(conns, pmap, now)
                            ELSE advanced_table
       /\ load_error' = (intel.error \/ sec_err \/ (tree_run /\ tree.error))
       /\ UNCHANGED <<now, busVars, tree_search, grid_search, grid_protocol, grid_status, table_search,
                      table_protocol, table_status, table_user, navVars,
                      status_message, intel_details>>

\* time passes: datetime.now() is t from here on
Tick(t) ==
    /\ t > now
    /\ now' = t
    /\ UNCHANGED <<busVars, tree_search, dataVars, filtered_data, advanced_table, gridVars, grid_filtered,
                   tableVars, navVars, status_message, intel_selected, intel_details,
                   viewVars>>

----------------------------------------------------------------------------
(* The six signals of DataSignals, statement by statement. A signal's emit *)
(* calls its slot on the emitter's thread, so the call stack holds the     *)
(* callback that emits below the slot that runs.                           *)

\* the slot connected to each signal in __init__
Subscriber(signal) ==
    CASE signal = "process_selected"    -> "on_process_selected"
      [] signal = "connection_selected" -> "on_connection_selected"
      [] signal = "filter_by_process"   -> "on_filter_by_process"
      [] signal = "filter_by_user"      -> "on_filter_by_user"
      [] signal = "highlight_external"  -> "on_highlight_external"
      [] signal = "highlight_untrusted" -> "on_highlight_untrusted"

\* the signal a callback emits
Emits(fn) ==
    CASE fn = "on_card_clicked"              -> "connection_selected"
      [] fn = "on_activity_clicked"          -> "connection_selected"
      [] fn = "on_external_table_clicked"    -> "connection_selected"
      [] fn = "on_connection_selected"       -> "process_selected"
      [] fn = "on_intel_tree_double_clicked" -> "process_selected"
      [] fn = "on_tree_double_clicked"       -> "filter_by_process"
      [] fn = "on_threat_clicked"            -> "filter_by_process"
      [] fn = "filter_by_selected_process"   -> "filter_by_process"
      [] fn = "goto_security"                -> "highlight_untrusted"
      [] fn = "goto_external"                -> "highlight_external"
      [] fn = "filter_by_user.emit"          -> "filter_by_user"

\* the signal a slot is connected to, "" for a callback of a widget
Handles(fn) ==
    CASE fn = "on_process_selected"    -> "process_selected"
      [] fn = "on_connection_selected" -> "connection_selected"
      [] fn = "on_filter_by_process"   -> "filter_by_process"
      [] fn = "on_filter_by_user"      -> "filter_by_user"
      [] fn = "on_highlight_external"  -> "highlight_external"
      [] fn = "on_highlight_untrusted" -> "highlight_untrusted"
      [] OTHER -> ""

\* the argument of a call: a connection record, a text (a pid, a process
\* name), a username, or none
ArgConn(conn_data) == [conn |-> conn_data, text |-> <<>>, user |-> ""]

ArgText(t) == [conn |-> EmptyDict, text |-> t, user |-> ""]

ArgUser(username) == [conn |-> EmptyDict, text |-> <<>>, user |-> username]

NoArg == [conn |-> EmptyDict, text |-> <<>>, user |-> ""]

\* the argument of the emit: on_connection_selected passes pid, every other
\* callback what it was given
EmitArg(frame) ==
    IF frame.fn = "on_connection_selected"
    THEN ArgText(StrGetEmpty(frame.arg.conn, "Pid"))
    ELSE frame.arg

\* the index a callback passes to tabs.setCurrentIndex after its emit
TabAfterEmit(fn) ==
    CASE fn = "on_connection_selected"       -> 4
      [] fn = "on_intel_tree_double_clicked" -> 4
      [] fn = "on_tree_double_clicked"       -> 1
      [] fn = "on_threat_clicked"            -> 1
      [] fn = "filter_by_selected_process"   -> 1

\* the callbacks that call self.tabs.setCurrentIndex after their emit
SetsTabAfterEmit ==
    {"on_connection_selected", "on_intel_tree_double_clicked", "on_tree_double_clicked",
     "on_threat_clicked", "filter_by_selected_process"}

\* a call of fn with arg, about to execute the statement pc
Frame(fn, pc, arg) == [fn |-> fn, pc |-> pc, arg |-> arg]


\* the running call, and the stack once it has returned
Top == stack[Len(stack)]

Popped == SubSeq(stack, 1, Len(stack) - 1)

\* the event loop waits for input
Idle == stack = <<>>

\* the text of QMessageBox.question in on_connection_selected
ConnectionDetails(conn_data, pmap) ==
    LET pid  == StrGetEmpty(conn_data, "Pid")
        proc == MapGet(pmap, pid)
    IN [name   |-> Get(conn_data, "Name", NoneText),
        pid    |-> pid,
        user   |-> Get(proc, "Username", Get(conn_data, "Username", "N/A")),
        type   |-> Get(conn_data, "Type", "None"),
        status |-> Get(conn_data, "Status", "None"),
        laddr  |-> Get(conn_data, "Laddr", NoneText),
        raddr  |-> Get(conn_data, "Raddr", NoneText)]

\* a left click on card i of the grid: clicked.emit runs on_card_clicked
CardClicked(i) ==
    /\ Idle
    /\ i \in DOMAIN grid_filtered
    /\ stack' = <<Frame("on_card_clicked", "emit", ArgConn(grid_filtered[i]))>>
    /\ invoked' = 0
    /\ UNCHANGED <<now, dialog, tree_search, dataVars, filtered_data, advanced_table,
                   gridVars, grid_filtered, tableVars, navVars, status_message,
                   intel_selected, intel_details, viewVars>>

\* a double click on item i of the Recent Activity list: on_activity_clicked
\* up to its emit
ActivityClicked(i) ==
    /\ Idle
    /\ i \in DOMAIN dashboard.activity
    /\ TruthyDict(dashboard.activity[i])
    /\ stack' = <<Frame("on_activity_clicked", "emit", ArgConn(dashboard.activity[i]))>>
    /\ invoked' = 0
    /\ UNCHANGED <<now, dialog, tree_search, dataVars, filtered_data, advanced_table,
                   gridVars, grid_filtered, tableVars, navVars, status_message,
                   intel_selected, intel_details, viewVars>>

\* a double click on item i of the threat list: on_threat_clicked up to its
\* emit
ThreatClicked(i) ==
    /\ Idle
    /\ i \in DOMAIN threat_list
    /\ threat_list[i] # PyNone
    /\ threat_list[i] # <<>>
    /\ stack' = <<Frame("on_threat_clicked", "emit", ArgText(threat_list[i]))>>
    /\ invoked' = 0
    /\ UNCHANGED <<now, dialog, tree_search, dataVars, filtered_data, advanced_table,
                   gridVars, grid_filtered, tableVars, navVars, status_message,
                   intel_selected, intel_details, viewVars>>

\* a click on a button of the intel tab: filter_by_selected_process up to its
\* emit
SelectedProcessClicked ==
    /\ Idle
    /\ intel_selected \in DOMAIN intel_tree
    /\ TruthyDict(intel_tree[intel_selected].proc)
    /\ stack' = <<Frame("filter_by_selected_process", "emit",
                        ArgText(Get(intel_tree[intel_selected].proc, "Name", <<>>)))>>
    /\ invoked' = 0
    /\ UNCHANGED <<now, dialog, tree_search, dataVars, filtered_data, advanced_table,
                   gridVars, grid_filtered, tableVars, navVars, status_message,
                   intel_selected, intel_details, viewVars>>

\* a double click on row `row` of the external table:
\* on_external_table_clicked reads the record kept in column 3
ExternalTableClicked(row) ==
    /\ Idle
    /\ row \in DOMAIN external_table
    /\ TruthyDict(external_table[row].conn)
    /\ stack' = <<Frame("on_external_table_clicked", "emit",
                        ArgConn(external_table[row].conn))>>
    /\ invoked' = 0
    /\ UNCHANGED <<now, dialog, tree_search, dataVars, filtered_data, advanced_table,
                   gridVars, grid_filtered, tableVars, navVars, status_message,
                   intel_selected, intel_details, viewVars>>

\* a double click on item i of the intel tree: on_intel_tree_double_clicked
\* up to its emit
IntelTreeDoubleClicked(i) ==
    /\ Idle
    /\ i \in DOMAIN intel_tree
    /\ TruthyDict(intel_tree[i].proc)
    /\ stack' = <<Frame("on_intel_tree_double_clicked", "emit",
                        ArgText(StrGetEmpty(intel_tree[i].proc, "Pid")))>>
    /\ invoked' = 0
    /\ UNCHANGED <<now, dialog, tree_search, dataVars, filtered_data, advanced_table,
                   gridVars, grid_filtered, tableVars, navVars, status_message,
                   intel_selected, intel_details, viewVars>>

\* a double click on item i of the process tree: on_tree_double_clicked up to
\* its emit
TreeDoubleClicked(i) ==
    /\ Idle
    /\ i \in DOMAIN process_tree
    /\ TruthyDict(process_tree[i].proc)
    /\ stack' = <<Frame("on_tree_double_clicked", "emit",
                        ArgText(Get(process_tree[i].proc, "Name", <<>>)))>>
    /\ invoked' = 0
    /\ UNCHANGED <<now, dialog, tree_search, dataVars, filtered_data, advanced_table,
                   gridVars, grid_filtered, tableVars, navVars, status_message,
                   intel_selected, intel_details, viewVars>>

\* a click on the Unsigned/Untrusted card (goto_security) or on the Unique
\* Remote IPs card (goto_external): setCurrentIndex(3), then the emit is next
GotoClicked(fn) ==
    /\ Idle
    /\ SetCurrentIndex(3)
    /\ stack' = <<Frame(fn, "emit", NoArg)>>
    /\ invoked' = 0
    /\ UNCHANGED <<now, dialog, tree_search, dataVars, filtered_data, advanced_table,
                   gridVars, grid_filtered, tableVars, status_message,
                   intel_selected, intel_details, viewVars>>

\* self.signals.filter_by_user.emit(username), which no callback of the window
\* calls: the emit is next
FilterByUserPublished(username) ==
    /\ Idle
    /\ stack' = <<Frame("filter_by_user.emit", "emit", ArgUser(username))>>
    /\ invoked' = 0
    /\ UNCHANGED <<now, dialog, tree_search, dataVars, filtered_data, advanced_table,
                   gridVars, grid_filtered, tableVars, navVars, status_message,
                   intel_selected, intel_details, viewVars>>

\* Emit with the slot queued: emit returns before the slot has run
Emit_Queued ==
    /\ ~Idle
    /\ Top.pc = "emit"
    /\ stack' = <<Frame(Subscriber(Emits(Top.fn)), "body", EmitArg(Top))>>
                \o [stack EXCEPT ![Len(stack)].pc = "emitted"]
    /\ invoked' = invoked + 1
    /\ UNCHANGED <<now, dialog, tree_search, dataVars, filtered_data, advanced_table,
                   gridVars, grid_filtered, tableVars, navVars, status_message,
                   intel_selected, intel_details, viewVars>>

\* signal.emit(arg) in the running call: the connected slot is called, and the
\* emitter continues after its emit when the slot has returned
Emit ==
    /\ ~Idle
    /\ Top.pc = "emit"
    /\ stack' = [stack EXCEPT ![Len(stack)].pc = "emitted"]
                \o <<Frame(Subscriber(Emits(Top.fn)), "body", EmitArg(Top))>>
    /\ invoked' = invoked + 1
    /\ UNCHANGED <<now, dialog, tree_search, dataVars, filtered_data, advanced_table,
                   gridVars, grid_filtered, tableVars, navVars, status_message,
                   intel_selected, intel_details, viewVars>>

\* on_connection_selected up to QMessageBox.question, which opens the dialog
\* and waits for the reply
ConnectionSelectedAsks ==
    /\ ~Idle
    /\ Top.fn = "on_connection_selected"
    /\ Top.pc = "body"
    /\ dialog' = ConnectionDetails(Top.arg.conn, process_map)
    /\ stack' = [stack EXCEPT ![Len(stack)].pc = "question"]
    /\ UNCHANGED <<now, invoked, tree_search, dataVars, filtered_data, advanced_table,
                   gridVars, grid_filtered, tableVars, navVars, status_message,
                   intel_selected, intel_details, viewVars>>

\* the user answers the dialog: with Ok the emit of process_selected is next,
\* with Cancel on_connection_selected returns
DialogReply(ok) ==
    /\ ~Idle
    /\ Top.fn = "on_connection_selected"
    /\ Top.pc = "question"
    /\ dialog' = <<>>
    /\ stack' = IF ok THEN [stack EXCEPT ![Len(stack)].pc = "emit"] ELSE Popped
    /\ UNCHANGED <<now, invoked, tree_search, dataVars, filtered_data, advanced_table,
                   gridVars, grid_filtered, tableVars, navVars, status_message,
                   intel_selected, intel_details, viewVars>>

\* on_process_selected(pid)
ProcessSelectedRuns ==
    /\ ~Idle
    /\ Top.fn = "on_process_selected"
    /\ status_message' = [msg |-> "Viewing process PID", arg |-> Top.arg.text]
    /\ stack' = Popped
    /\ UNCHANGED <<now, dialog, invoked, tree_search, dataVars, filtered_data,
                   advanced_table, gridVars, grid_filtered, tableVars, navVars,
                   intel_selected, intel_details, viewVars>>

\* on_filter_by_process(proc_name)
FilterByProcessRuns ==
    /\ ~Idle
    /\ Top.fn = "on_filter_by_process"
    /\ OnFilterByProcess(Top.arg.text)
    /\ stack' = Popped
    /\ UNCHANGED <<now, dialog, invoked, tree_search, dataVars, filtered_data,
                   advanced_table, grid_protocol, grid_status, grid_status_items,
                   tableVars, navVars, intel_selected, intel_details, viewVars>>

\* on_filter_by_user(username)
FilterByUserRuns ==
    /\ ~Idle
    /\ Top.fn = "on_filter_by_user"
    /\ table_user' = ComboSetCurrentText(table_user_items, table_user, Top.arg.user)
    /\ filtered_data' = TableFilter(network_data, process_map, table_search,
                                    table_protocol, table_status, table_user')
    /\ advanced_table' = UpdateAdvancedTable(filtered_data', process_map, now)
    /\ stack' = Popped
    /\ UNCHANGED <<now, dialog, invoked, tree_search, dataVars, gridVars, grid_filtered,
                   table_search, table_protocol, table_status, table_status_items,
                   table_user_items, navVars, status_message, intel_selected,
                   intel_details, viewVars>>

\* on_highlight_external() and on_highlight_untrusted()
HighlightRuns ==
    /\ ~Idle
    /\ Top.fn \in {"on_highlight_external", "on_highlight_untrusted"}
    /\ IF Top.fn = "on_highlight_external" THEN OnHighlightExternal
       ELSE OnHighlightUntrusted
    /\ stack' = Popped
    /\ UNCHANGED <<now, dialog, invoked, tree_search, dataVars, filtered_data,
                   advanced_table, gridVars, grid_filtered, tableVars, navVars,
                   intel_selected, intel_details, viewVars>>

\* the status bar after the statements that follow a callback's emit:
\* filter_by_selected_process shows its message, the others leave the bar
MessageAfterEmit(frame) ==
    IF frame.fn = "filter_by_selected_process"
    THEN [msg |-> "Filtered by process", arg |-> frame.arg.text]
    ELSE status_message

\* AfterEmitSetsTab with the breadcrumb left as it was
AfterEmitSetsTab_NoBreadcrumb ==
    /\ ~Idle
    /\ Top.pc = "emitted"
    /\ Top.fn \in SetsTabAfterEmit
    /\ tabs_index' = TabAfterEmit(Top.fn)
    /\ breadcrumb' = breadcrumb
    /\ status_message' = MessageAfterEmit(Top)
    /\ stack' = Popped
    /\ UNCHANGED <<now, dialog, invoked, tree_search, dataVars, filtered_data,
                   advanced_table, gridVars, grid_filtered, tableVars,
                   intel_selected, intel_details, viewVars>>

\* the statements after the emit in on_connection_selected,
\* on_intel_tree_double_clicked, on_tree_double_clicked, on_threat_clicked and
\* filter_by_selected_process: self.tabs.setCurrentIndex, in
\* filter_by_selected_process the status bar's message as well, after which
\* the callback returns
AfterEmitSetsTab ==
    /\ ~Idle
    /\ Top.pc = "emitted"
    /\ Top.fn \in SetsTabAfterEmit
    /\ SetCurrentIndex(TabAfterEmit(Top.fn))
    /\ status_message' = MessageAfterEmit(Top)
    /\ stack' = Popped
    /\ UNCHANGED <<now, dialog, invoked, tree_search, dataVars, filtered_data,
                   advanced_table, gridVars, grid_filtered, tableVars,
                   intel_selected, intel_details, viewVars>>

\* a callback whose emit is its last statement returns
AfterEmitReturns ==
    /\ ~Idle
    /\ Top.pc = "emitted"
    /\ Top.fn \in {"on_card_clicked", "on_activity_clicked", "on_external_table_clicked",
                   "goto_security", "goto_external", "filter_by_user.emit"}
    /\ stack' = Popped
    /\ UNCHANGED <<now, dialog, invoked, tree_search, dataVars, filtered_data,
                   advanced_table, gridVars, grid_filtered, tableVars, navVars,
                   status_message, intel_selected, intel_details, viewVars>>

\* the user clicks the tab with index i: currentChanged runs on_tab_changed
TabClicked(i) ==
    /\ Idle
    /\ i # tabs_index
    /\ SetCurrentIndex(i)
    /\ UNCHANGED <<now, busVars, tree_search, dataVars, filtered_data, advanced_table,
                   gridVars, grid_filtered, tableVars, status_message, intel_selected,
                   intel_details, viewVars>>

----------------------------------------------------------------------------
(* The search box of the process tree.                                     *)

\* FilterItem with the children left out of `show`
FilterItem_OwnLabel(tree, k, search_text) ==
    Contains(Lower(tree[k].label), search_text)

RECURSIVE FilterItem(_, _, _)
\* filter_item(item) of filter_tree for item k: what it returns, which is the
\* negation of what it passes to item.setHidden
FilterItem(tree, k, search_text) ==
    \/ Contains(Lower(tree[k].label), search_text)
    \/ \E c \in DOMAIN tree : tree[c].parent = k /\ FilterItem(tree, c, search_text)

\* the items of the process tree after filter_tree: with a search text
\* filter_item runs from every top-level item, with none show_all_items does
FilterTree(tree, search_text) ==
    [k \in DOMAIN tree |->
        [tree[k] EXCEPT !.hidden = IF search_text # <<>>
                                   THEN ~FilterItem(tree, k, search_text)
                                   ELSE FALSE]]

\* the user edits tree_search: textChanged -> filter_tree
SetTreeSearch(t) ==
    /\ Idle
    /\ t # tree_search
    /\ tree_search' = t
    /\ process_tree' = FilterTree(process_tree, Lower(t))
    /\ UNCHANGED <<now, busVars, dataVars, filtered_data, advanced_table, gridVars,
                   grid_filtered, tableVars, navVars, status_message, intel_selected,
                   intel_details, intel_tree, threat_list, timeline_rows, load_error,
                   dashboard, security_cards, external_table>>

----------------------------------------------------------------------------
(* Functions that no widget is connected to and no statement calls: the     *)
(* three buttons of the intel tab all run filter_by_selected_process, and   *)
(* the cards are built anew on every load. They take part in no run of the  *)
(* program; SpecApi has them as steps of their own.                         *)

\* goto_tree_tab(): with an item of the intel tree selected, tab 4, the
\* process name in the tree's search box (textChanged -> filter_tree when the
\* text is new) and a message; with none selected, tab 4 and a hint
GotoTreeTab ==
    /\ Idle
    /\ IF intel_selected \in DOMAIN intel_tree
       THEN LET proc      == intel_tree[intel_selected].proc
                pid       == StrGetEmpty(proc, "Pid")
                proc_name == Get(proc, "Name", <<>>)
            IN IF proc = EmptyDict
               THEN UNCHANGED <<navVars, tree_search, process_tree, status_message>>
               ELSE /\ SetCurrentIndex(4)
                    /\ tree_search' = proc_name
                    /\ process_tree' = IF proc_name # tree_search
                                       THEN FilterTree(process_tree, Lower(proc_name))
                                       ELSE process_tree
                    /\ status_message' = [msg |-> "Viewing in Process Tree",
                                          arg |-> proc_name \o <<" ", "(">> \o pid \o <<")">>]
       ELSE /\ SetCurrentIndex(4)
            /\ status_message' = [msg |-> "Select a process first to highlight it in the tree",
                                  arg |-> <<>>]
            /\ UNCHANGED <<tree_search, process_tree>>
    /\ UNCHANGED <<now, busVars, dataVars, filtered_data, advanced_table, gridVars,
                   grid_filtered, tableVars, intel_selected, intel_details, intel_tree,
                   threat_list, timeline_rows, load_error, dashboard, security_cards,
                   external_table>>

\* goto_table_tab(): with an item of the intel tree selected, tab 6, the
\* process name in the table's search box, apply_table_filters and a message;
\* with none selected, tab 6 and a hint
GotoTableTab ==
    /\ Idle
    /\ IF intel_selected \in DOMAIN intel_tree
       THEN LET proc      == intel_tree[intel_selected].proc
                pid       == StrGetEmpty(proc, "Pid")
                proc_name == Get(proc, "Name", <<>>)
            IN IF proc = EmptyDict
               THEN UNCHANGED <<navVars, table_search, filtered_data, advanced_table,
                                status_message>>
               ELSE /\ SetCurrentIndex(6)
                    /\ table_search' = proc_name
                    /\ filtered_data' = TableFilter(network_data, process_map, proc_name,
                                                    table_protocol, table_status, table_user)
                    /\ advanced_table' = UpdateAdvancedTable(filtered_data', process_map, now)
                    /\ status_message' = [msg |-> "Showing connections for",
                                          arg |-> proc_name \o <<" ", "(">> \o pid \o <<")">>]
       ELSE /\ SetCurrentIndex(6)
            /\ status_message' = [msg |-> "Select a process first to filter the table",
                                  arg |-> <<>>]
            /\ UNCHANGED <<table_search, filtered_data, advanced_table>>
    /\ UNCHANGED <<now, busVars, tree_search, dataVars, gridVars, grid_filtered,
                   table_protocol, table_status, table_user, table_status_items,
                   table_user_items, intel_selected, intel_details, viewVars>>

\* ClickableMetricCard.update_value(value) on one of the dashboard's six cards
\* (panel "dashboard") or of the security tab's three (panel "security", once
\* populate_security_analysis has built the cards): the card shows value
UpdateValue(panel, card, value) ==
    /\ Idle
    /\ IF panel = "dashboard"
       THEN /\ card \in {"total_conns", "total_procs", "listening", "established",
                        "unsigned", "remote_ips"}
            /\ dashboard' = [dashboard EXCEPT ![card] = value]
            /\ UNCHANGED security_cards
       ELSE /\ card \in {"unsigned", "external", "high_ports"}
            /\ security_cards.shown
            /\ security_cards' = [security_cards EXCEPT ![card] = value]
            /\ UNCHANGED dashboard
    /\ UNCHANGED <<now, busVars, tree_search, dataVars, filtered_data, advanced_table,
                   gridVars, grid_filtered, tableVars, navVars, status_message,
                   intel_selected, intel_details, intel_tree, process_tree, threat_list,
                   timeline_rows, load_error, external_table>>

----------------------------------------------------------------------------
(* The records the specifications load.                                    *)

T_a == <<"a">>
T_b == <<"b">>
T_Ab == <<"A", "b">>
T_c == <<"c">>
A_any == <<"0", ".", "0", ".", "0", ".", "0">>
A_lan == <<"1", "0", ".", "0", ".", "0", ".", "5">>
A_dns == <<"8", ".", "8", ".", "8", ".", "8">>
A_loop == <<"1", "2", "7", ".", "0", ".", "0", ".", "1">>

\* the name and the user the model gives the process with a Pid
ProcName(pid) == CASE pid = 1 -> T_a [] pid = 2 -> T_Ab [] pid = 3 -> T_b [] OTHER -> T_c

ProcUser(pid) == CASE pid = 1 -> "alice" [] pid = 2 -> "bob" [] OTHER -> "alice"

\* a process record {Pid, Ppid, Name, Username, CommandLine}
Proc(pid, ppid) ==
    [Pid |-> pid, Ppid |-> ppid, Name |-> ProcName(pid), Username |-> ProcUser(pid),
     CommandLine |-> ProcName(pid)]

\* a process record {Pid, Name, Username, CommandLine}, with no Ppid
ProcNoPpid(pid) ==
    [Pid |-> pid, Name |-> ProcName(pid), Username |-> ProcUser(pid),
     CommandLine |-> ProcName(pid)]

\* a process record {Pid, Ppid, Name, Username}, with no CommandLine
ProcNoCommandLine(pid, ppid) ==
    [Pid |-> pid, Ppid |-> ppid, Name |-> ProcName(pid), Username |-> ProcUser(pid)]

\* process records of the tree specification: every Pid with every Ppid, 99
\* being a Ppid that resolves to no record
TreeProcs == {Proc(pid, ppid) : pid \in 0..3, ppid \in {0, 1, 2, 99}}
             \cup {ProcNoPpid(pid) : pid \in 0..3}

TreeProcLists == UNION {[1..n -> TreeProcs] : n \in 0..MaxProcs}

C_listen == [Pid |-> 1, Name |-> T_a, Type |-> "TCP", Status |-> "LISTEN",
             Laddr |-> A_any, Raddr |-> <<>>, Username |-> "alice",
             Authenticode |-> [Trusted |-> "trusted"]]
C_estab == [Pid |-> 2, Name |-> T_Ab, Type |-> "TCP", Status |-> "ESTAB",
            Laddr |-> A_lan, Raddr |-> A_dns, Username |-> "carol",
            Timestamp |-> "2024-01-01T00:30:00Z", Authenticode |-> JNull]
C_orphan == [Pid |-> 12, Name |-> T_Ab, Type |-> "UDP", Status |-> "ESTAB",
             Laddr |-> A_loop, Raddr |-> A_loop, Username |-> "carol",
             Authenticode |-> [Trusted |-> "untrusted"]]
C_bare == [Name |-> T_a, Username |-> "bob"]
C_noname == [Pid |-> 1, Type |-> "UDP", Status |-> "LISTEN", Laddr |-> A_lan,
             Authenticode |-> [Trusted |-> "trusted"]]
C_seven == [Pid |-> 7, Name |-> T_a, Type |-> "TCP", Status |-> "TIME_WAIT",
             Laddr |-> A_any, Raddr |-> A_lan]

\* connection records of the filter specifications
ConnPool == {C_listen, C_orphan, C_bare}

ConnLists == UNION {[1..n -> ConnPool] : n \in 0..MaxConns}

\* the connection records the tree specification loads
TreeConns == <<C_estab, C_listen, C_orphan, C_noname>>

\* process files of the filter specifications: an empty one, a parent and its
\* child, Pid 2 twice with a child, and one that load_data skips because its
\* first record has no CommandLine
ProcChoices == {<<>>,
                <<Proc(1, 0), Proc(2, 1)>>,
                <<Proc(2, 99), ProcNoPpid(2), Proc(12, 2)>>,
                <<ProcNoCommandLine(1, 0), Proc(2, 1)>>}

\* texts typed into a search box
SearchTexts == {<<>>, T_a, <<"a", " ", "1">>}

Protocols == {"TCP", "UDP"}

\* usernames published with filter_by_user
UserNames == {"alice", "bob", "mallory"}

----------------------------------------------------------------------------
(* Specifications.                                                         *)

\* the window after __init__, for the filter and navigation specifications
Init ==
    /\ now = 0
    /\ \E procs \in ProcChoices, conns \in ConnLists : LoadedInit(procs, conns)

\* the filter widgets of the grid tab and of the table tab
Next ==
    \/ \E t \in SearchTexts : SetGridSearch(t)
    \/ \E p \in Protocols \cup {"All"} : SetGridProtocol(p)
    \/ \E s \in Range(grid_status_items) : SetGridStatus(s)
    \/ ClearGridFilters
    \/ \E t \in SearchTexts : SetTableSearch(t)
    \/ \E p \in Protocols \cup {"All Protocols"} : SetTableProtocol(p)
    \/ \E s \in Range(table_status_items) : SetTableStatus(s)
    \/ \E u \in Range(table_user_items) : SetTableUser(u)
    \/ ClearTableFilters

Spec == Init /\ [][Next]_vars

\* the window after __init__, for the tree specification
InitTree ==
    /\ now = 0
    /\ \E procs \in TreeProcLists : LoadedInit(procs, TreeConns)

\* clicks on the two trees
NextTree ==
    \/ \E i \in DOMAIN intel_tree : OnIntelTreeClicked(i)
    \/ \E i \in DOMAIN process_tree : OnTreeDoubleClicked(i)

SpecTree == InitTree /\ [][NextTree]_vars

\* the signals, their emitters, the table's search box and user selector, and
\* the double click on a row of the timeline
NextNav ==
    \/ \E i \in DOMAIN intel_tree : OnIntelTreeClicked(i)
    \/ \E i \in DOMAIN process_tree : OnTreeDoubleClicked(i)
    \/ \E i \in DOMAIN threat_list : OnThreatClicked(i)
    \/ FilterBySelectedProcess
    \/ \E u \in UserNames : OnFilterByUser(u)
    \/ \E t \in SearchTexts : SetTableSearch(t)
    \/ \E p \in Protocols \cup {"All"} : SetGridProtocol(p)
    \/ \E row \in DOMAIN timeline_rows : OnTimelineClicked(row)

SpecNav == Init /\ [][NextNav]_vars

\* connection records of the join specification: two different records of
\* Pid 1, one of Pid 12, one without Pid
JoinConnPool == {C_listen, C_noname, C_orphan, C_bare}

JoinConnLists == UNION {[1..n -> JoinConnPool] : n \in 0..MaxJoinConns}

\* the window after __init__, for the join specification
InitJoin ==
    /\ now = 0
    /\ \E procs \in ProcChoices, conns \in JoinConnLists : LoadedInit(procs, conns)

\* the callbacks that fill the detail pane: a click on an item of the intel
\* tree, a double click on a row of the timeline or of the table
NextJoin ==
    \/ \E i \in DOMAIN intel_tree : OnIntelTreeClicked(i)
    \/ \E row \in DOMAIN timeline_rows : OnTimelineClicked(row)
    \/ \E row \in DOMAIN advanced_table : OnTableDoubleClicked(row)

SpecJoin == InitJoin /\ [][NextJoin]_vars

\* connection records of the dashboard and load specifications: trusted and
\* external; untrusted and loopback; null Authenticode and blank Raddr; no
\* Raddr and no Authenticode; empty Authenticode and the wildcard address;
\* Authenticode without Trusted and the IPv6 loopback; listening; no Name
N_ext == [Pid |-> 1, Laddr |-> A_lan, Name |-> T_a, Type |-> "TCP", Status |-> "ESTAB",
          Raddr |-> A_dns, Authenticode |-> [Trusted |-> "trusted"]]
N_loop == [Pid |-> 1, Laddr |-> A_lan, Name |-> T_a, Type |-> "TCP", Status |-> "ESTAB",
           Raddr |-> A_loop, Authenticode |-> [Trusted |-> "untrusted"]]
N_blank == [Pid |-> 2, Laddr |-> A_lan, Name |-> T_Ab, Type |-> "TCP", Status |-> "ESTAB",
            Raddr |-> <<" ">>, Authenticode |-> JNull]
N_noraddr == [Pid |-> 2, Laddr |-> A_lan, Name |-> T_Ab, Type |-> "UDP", Status |-> "ESTAB"]
N_emptyauth == [Pid |-> 12, Laddr |-> A_lan, Name |-> T_Ab, Status |-> "LISTEN", Raddr |-> A_any,
                Authenticode |-> EmptyDict]
N_v6 == [Pid |-> 12, Laddr |-> A_lan, Name |-> T_c, Type |-> "TCP", Status |-> "ESTAB",
         Raddr |-> <<":", ":", "1">>, Authenticode |-> [Signer |-> "x"]]
N_listen == [Pid |-> 1, Laddr |-> A_lan, Name |-> T_a, Type |-> "TCP", Status |-> "LISTEN",
             Raddr |-> A_dns, Authenticode |-> [Trusted |-> "trusted"]]
N_noname == [Pid |-> 1, Laddr |-> A_lan, Type |-> "TCP", Status |-> "ESTAB", Raddr |-> A_dns]

DashPool == {N_ext, N_loop, N_blank, N_noraddr, N_emptyauth, N_v6, N_listen, N_noname}

DashConnLists == UNION {[1..n -> DashPool] : n \in 0..MaxConns}

DashProcs == {<<>>, <<Proc(1, 0), Proc(2, 1)>>}

\* what the files hold when load_data runs, first and again
LoadPool == {N_noname, N_blank, N_listen}

LoadConnLists == UNION {[1..n -> LoadPool] : n \in 0..MaxConns}

LoadProcs == {<<>>, <<Proc(1, 0), Proc(2, 1)>>, <<Proc(0, 0)>>, <<Proc(3, 99)>>}

\* what the files hold when load_data runs again: records that load, a
\* process that is its own parent, an unnamed connection next to a named one,
\* and nothing
Reloads == {[procs |-> <<Proc(1, 0), Proc(2, 1)>>, conns |-> <<N_listen, N_blank>>],
            [procs |-> <<Proc(0, 0)>>, conns |-> <<N_blank>>],
            [procs |-> <<Proc(3, 99)>>, conns |-> <<N_noname, N_blank>>],
            [procs |-> <<>>, conns |-> <<>>]}

\* a process record with a StartTime
ProcStarted(pid, ppid, start) ==
    [Pid |-> pid, Ppid |-> ppid, Name |-> ProcName(pid), Username |-> ProcUser(pid),
     CommandLine |-> ProcName(pid), StartTime |-> start]

\* StartTime values: empty, the zero timestamp, one that does not parse, and
\* four instants
StartTimes == {"", "0001-01-01T00:00:00Z", "not-a-time", "2024-01-01T00:00:00Z",
               "2024-01-01T00:30:00Z", "2024-01-01T02:00:00Z", "2024-01-03T05:00:00Z"}

UptimeProcs == {<<ProcStarted(1, 0, s), Proc(2, 1)>> : s \in StartTimes}
               \cup {<<Proc(1, 0), ProcStarted(2, 1, s)>> : s \in StartTimes}

UptimeConns == <<C_listen, C_estab>>

\* values of datetime.now(): 00:00, 00:45 and 02:30 of 2024-01-01, 02:00 of
\* 2024-01-02, and 07:33:20 of 2024-01-03
Instants == {0, 2700, 9000, 93600, 200000}

\* the window after __init__, for the dashboard specification
InitDash ==
    /\ now = 0
    /\ \E procs \in DashProcs, conns \in DashConnLists : LoadedInit(procs, conns)

\* the dashboard's cards and the grid's search box
NextDash ==
    \/ GotoSecurity
    \/ GotoExternal
    \/ \E i \in {2, 6} : CardSetsTab(i)
    \/ \E status \in {"LISTEN", "ESTAB"} : filter_by_status(status)
    \/ \E t \in {<<>>, T_a} : SetGridSearch(t)

SpecDash == InitDash /\ [][NextDash]_vars

\* the window after __init__, for the load specification
InitLoad ==
    /\ now = 0
    /\ \E procs \in LoadProcs, conns \in LoadConnLists : LoadedInit(procs, conns)

\* load_data run again, and the table's status and user selectors
NextLoad ==
    \/ \E files \in Reloads : LoadData(files.procs, files.conns)
    \/ \E s \in Range(table_status_items) : SetTableStatus(s)
    \/ \E u \in Range(table_user_items) : SetTableUser(u)

SpecLoad == InitLoad /\ [][NextLoad]_vars

\* the window after __init__ at some instant, for the uptime specification
InitUptime ==
    /\ now \in Instants
    /\ \E procs \in UptimeProcs : LoadedInit(procs, UptimeConns)

\* the clock, and the table's filters, which rewrite the table's rows
NextUptime ==
    \/ \E t \in Instants : Tick(t)
    \/ \E t \in SearchTexts : SetTableSearch(t)
    \/ \E p \in Protocols \cup {"All Protocols"} : SetTableProtocol(p)
    \/ ClearTableFilters

SpecUptime == InitUptime /\ [][NextUptime]_vars

\* an earlier record of a Pid that a later record of the list carries again
ProcAs(pid, user) ==
    [Pid |-> pid, Ppid |-> 0, Name |-> T_c, Username |-> user, CommandLine |-> T_c]

\* a process record with no Pid, and one with no Username
ProcNoPid == [Ppid |-> 0, Name |-> T_b, Username |-> "dave", CommandLine |-> T_b]

ProcNoUser(pid) == [Pid |-> pid, Ppid |-> 0, Name |-> T_Ab, CommandLine |-> T_Ab]

\* process lists of the signal specification: none, a parent and its child,
\* Pid 2 twice, a record without Pid, a record without Username
BusProcs == {<<>>,
             <<Proc(1, 0), Proc(2, 1)>>,
             <<ProcAs(2, "dave"), Proc(1, 0), Proc(2, 1)>>,
             <<ProcNoPid, Proc(2, 1)>>,
             <<ProcNoUser(2), ProcAs(1, "carol")>>}

BusConnPool == {C_listen, C_estab, C_bare}

BusConnLists == UNION {[1..n -> BusConnPool] : n \in 0..MaxConns}

\* the window after __init__, for the signal specification
InitBus ==
    /\ now = 0
    /\ \E procs \in BusProcs, conns \in BusConnLists : LoadedInit(procs, conns)

\* the callbacks that emit a signal, the selection in the intel tree, the
\* slots, the dialog and the table's user selector; a widget takes input when
\* the event loop is idle
NextBus ==
    \/ \E i \in DOMAIN grid_filtered : CardClicked(i)
    \/ \E i \in DOMAIN dashboard.activity : ActivityClicked(i)
    \/ \E i \in DOMAIN threat_list : ThreatClicked(i)
    \/ \E i \in {1} : Idle /\ OnIntelTreeClicked(i)
    \/ SelectedProcessClicked
    \/ \E row \in DOMAIN external_table : ExternalTableClicked(row)
    \/ \E i \in DOMAIN intel_tree : IntelTreeDoubleClicked(i)
    \/ \E i \in DOMAIN process_tree : TreeDoubleClicked(i)
    \/ \E fn \in {"goto_security", "goto_external"} : GotoClicked(fn)
    \/ \E u \in {"bob"} : FilterByUserPublished(u)
    \/ Emit
    \/ ConnectionSelectedAsks
    \/ \E ok \in BOOLEAN : DialogReply(ok)
    \/ ProcessSelectedRuns
    \/ FilterByProcessRuns
    \/ FilterByUserRuns
    \/ HighlightRuns
    \/ AfterEmitSetsTab
    \/ AfterEmitReturns
    \/ \E u \in Range(table_user_items) : Idle /\ SetTableUser(u)

SpecBus == InitBus /\ [][NextBus]_vars

\* the window after __init__, for the tab specification
InitTabs ==
    /\ now = 0
    /\ \E procs \in {<<>>, <<Proc(1, 0), Proc(2, 1)>>}, conns \in BusConnLists :
           LoadedInit(procs, conns)

\* every callback that changes the active tab: those of the signal
\* specification, the tab bar, the dashboard's cards and the double clicks on
\* a row of the timeline and on a row of the table
NextTabs ==
    \/ NextBus
    \/ \E i \in {0, 5} : TabClicked(i)
    \/ \E status \in {"LISTEN"} : Idle /\ filter_by_status(status)
    \/ \E i \in {2, 6} : Idle /\ CardSetsTab(i)
    \/ \E row \in DOMAIN timeline_rows : Idle /\ OnTimelineClicked(row)
    \/ \E row \in DOMAIN advanced_table : Idle /\ OnTableDoubleClicked(row)

SpecTabs == InitTabs /\ [][NextTabs]_vars

\* process records of the tree search specification
SearchProcPool == {Proc(1, 0), Proc(2, 1), Proc(3, 2), Proc(12, 1), ProcNoPpid(3)}

SearchProcLists == UNION {[1..n -> SearchProcPool] : n \in 0..MaxProcs}

\* texts typed into the process tree's search box: nothing, part of a name in
\* either case, part of a Pid, a name with its Pid, and a text no label holds
TreeSearchTexts == {<<>>, T_a, T_b, <<"A">>, <<"(", "1">>, <<"B", " ", "(", "2">>,
                    <<"z">>}

\* the window after __init__, for the tree search specification
InitSearch ==
    /\ now = 0
    /\ \E procs \in SearchProcLists : LoadedInit(procs, TreeConns)

\* the process tree's search box, and the tab of the process tree
NextSearch ==
    \/ \E t \in TreeSearchTexts : SetTreeSearch(t)
    \/ \E i \in {4} : TabClicked(i)

SpecSearch == InitSearch /\ [][NextSearch]_vars

\* the cards update_value is called on, one of each panel, and the value
\* passed
UpdatedCards == {"total_conns", "external"}

CardValues == {7}

\* the functions nothing in the program calls, called on the loaded window
\* after a click on an item of the intel tree or without one
NextApi ==
    \/ \E i \in DOMAIN intel_tree : OnIntelTreeClicked(i)
    \/ GotoTreeTab
    \/ GotoTableTab
    \/ \E panel \in {"dashboard", "security"},
          card \in UpdatedCards,
          value \in CardValues : UpdateValue(panel, card, value)

SpecApi == Init /\ [][NextApi]_vars


\* the interpreter executes the next statement of the running call; the
\* dialog's reply and every other input are the user's
RunStep ==
    \/ Emit
    \/ ConnectionSelectedAsks
    \/ ProcessSelectedRuns
    \/ FilterByProcessRuns
    \/ FilterByUserRuns
    \/ HighlightRuns
    \/ AfterEmitSetsTab
    \/ AfterEmitReturns

\* the callbacks that emit a signal, the selection in the intel tree, the
\* slots and the dialog
NextDispatch ==
    \/ \E i \in DOMAIN grid_filtered : CardClicked(i)
    \/ \E i \in DOMAIN dashboard.activity : ActivityClicked(i)
    \/ \E i \in DOMAIN threat_list : ThreatClicked(i)
    \/ \E i \in {1} : Idle /\ OnIntelTreeClicked(i)
    \/ SelectedProcessClicked
    \/ \E row \in DOMAIN external_table : ExternalTableClicked(row)
    \/ \E i \in DOMAIN intel_tree : IntelTreeDoubleClicked(i)
    \/ \E i \in DOMAIN process_tree : TreeDoubleClicked(i)
    \/ \E fn \in {"goto_security", "goto_external"} : GotoClicked(fn)
    \/ \E u \in {"bob"} : FilterByUserPublished(u)
    \/ Emit
    \/ ConnectionSelectedAsks
    \/ \E ok \in BOOLEAN : DialogReply(ok)
    \/ ProcessSelectedRuns
    \/ FilterByProcessRuns
    \/ FilterByUserRuns
    \/ HighlightRuns
    \/ AfterEmitSetsTab
    \/ AfterEmitReturns

\* process lists of the dispatch specification: none, a parent and its child,
\* a record without Username
DispatchProcs == {<<>>,
                  <<Proc(1, 0), Proc(2, 1)>>,
                  <<ProcNoUser(2), ProcAs(1, "carol")>>}

\* the window after __init__, for the dispatch specification
InitDispatch ==
    /\ now = 0
    /\ \E procs \in DispatchProcs, conns \in BusConnLists : LoadedInit(procs, conns)

FairSpecBus == InitDispatch /\ [][NextDispatch]_vars /\ WF_vars(RunStep)

----------------------------------------------------------------------------
(* The process forest (SpecTree).                                          *)

\* the two trees the window holds
Forests == {intel_tree, process_tree}

\* the items of a tree that show a record with this Pid text
ItemsOfPid(tree, pid) == {k \in DOMAIN tree : tree[k].pid = pid}

\* the top-level items of a tree
TopLevel(tree) == {k \in DOMAIN tree : tree[k].parent = 0}

RECURSIVE AncestorsOf(_, _)
\* the items above item k of a tree
AncestorsOf(tree, k) ==
    IF tree[k].parent = 0 THEN {}
    ELSE {tree[k].parent} \cup AncestorsOf(tree, tree[k].parent)

\* the root condition as the specification words it
SpecRoot(p) ==
    \/ ~Has(p, "Ppid")
    \/ p.Ppid = 0
    \/ \A j \in DOMAIN process_data : ~(Has(process_data[j], "Pid")
                                        /\ process_data[j].Pid = p.Ppid)

\* C1: the forest (roots plus everything reachable from them) shows every
\* Pid of the loaded records exactly once, in the intel tree and in the
\* process tree: none left out, none placed twice.
C1_EveryPidOnce ==
    \A tree \in Forests :
        \A i \in DOMAIN process_data :
            Cardinality(ItemsOfPid(tree, StrGetEmpty(process_data[i], "Pid"))) = 1

\* C2: the construction of the two trees ends without exhausting the
\* interpreter's recursion, for every list of records: add_node is never
\* nested deeper than the recursion limit.
C2_ConstructionTerminates ==
    /\ ~PopulateProcessIntel(process_data, network_data).error
    /\ ~PopulateProcessTree(process_data, network_data).error

\* C3: a loaded record is shown as a top-level item of the process tree if and
\* only if its Ppid is absent, zero, or the Pid of no loaded record.
C3_RootsAreTopLevel ==
    \A i \in DOMAIN process_data :
        (\E k \in TopLevel(process_tree) : process_tree[k].proc = process_data[i])
            <=> SpecRoot(process_data[i])

\* C4: in each tree every item below the top level hangs under the item whose
\* Pid is its Ppid, no record shown at the top level is also shown under
\* another item, and no item has an item of its own Pid above it.
C4_ForestShape ==
    \A tree \in Forests :
        \A k \in DOMAIN tree :
            /\ tree[k].parent \in 0..(k - 1)
            /\ tree[k].parent # 0 =>
                   tree[tree[k].parent].pid = StrGetEmpty(tree[k].proc, "Ppid")
            /\ tree[k].parent = 0 =>
                   \A m \in DOMAIN tree : tree[m].proc = tree[k].proc => tree[m].parent = 0
            /\ \A a \in AncestorsOf(tree, k) : tree[a].pid # tree[k].pid

\* what C3 and C4 say, on the loads whose construction completed and whose
\* records have distinct Pids, none of them 0
TreeOnCleanLoads ==
    (/\ ~load_error
     /\ \A i, j \in DOMAIN process_data :
            /\ process_data[i].Pid # 0
            /\ i # j => process_data[i].Pid # process_data[j].Pid)
        => C3_RootsAreTopLevel /\ C4_ForestShape

----------------------------------------------------------------------------
(* The join of connections to processes (SpecJoin).                        *)

\* the loaded connection records whose Pid field equals pid, in base order
WithPid(pid) == SelectSeq(network_data, LAMBDA n : Has(n, "Pid") /\ n.Pid = pid)

\* the Pids that occur in the loaded records
LoadedPids ==
    {network_data[i].Pid : i \in {j \in DOMAIN network_data : Has(network_data[j], "Pid")}}
    \cup {process_data[i].Pid : i \in {j \in DOMAIN process_data : Has(process_data[j], "Pid")}}

\* C5: the connections associated with a pid are exactly the loaded
\* connection records whose Pid field equals it, in base order, whether or not
\* a process record has that Pid: as computed for any Pid of the load, as
\* counted on every item of the two trees and in every timeline row next to
\* the PID the row shows, and as listed in the detail pane.
C5_ConnectionsOfPid ==
    /\ \A pid \in LoadedPids : ConnsOf(network_data, StrNat(pid)) = WithPid(pid)
    /\ \A tree \in Forests : \A k \in DOMAIN tree :
           Has(tree[k].proc, "Pid") => tree[k].nconn = Len(WithPid(tree[k].proc.Pid))
    /\ \A r \in DOMAIN timeline_rows : \A pid \in LoadedPids :
           (~IsNone(timeline_rows[r].pid) /\ timeline_rows[r].pid = StrNat(pid)) =>
               timeline_rows[r].nconn = Len(WithPid(pid))
    /\ Has(intel_details.proc, "Pid") =>
           intel_details.conns = WithPid(intel_details.proc.Pid)

\* C5's case: three connections are loaded, the first and the third two
\* different records of the clicked process, the second a record whose Pid no
\* process record has, and the detail pane lists the first and the third in
\* that order
C5_Witness ==
    /\ Has(intel_details.proc, "Pid")
    /\ Len(network_data) = 3
    /\ network_data[1] # network_data[3]
    /\ intel_details.conns = <<network_data[1], network_data[3]>>
    /\ Has(network_data[2], "Pid")
    /\ StrNat(network_data[2].Pid) \notin DOMAIN process_map

----------------------------------------------------------------------------
(* The filters (Spec).                                                     *)

RECURSIVE IsSubseq(_, _)
\* a can be had from b by deleting elements
IsSubseq(a, b) ==
    IF a = <<>> THEN TRUE
    ELSE IF b = <<>> THEN FALSE
    ELSE IF Head(a) = Head(b) THEN IsSubseq(Tail(a), Tail(b))
    ELSE IsSubseq(a, Tail(b))

ResultsAreSubsequences ==
    /\ IsSubseq(filtered_data, network_data)
    /\ IsSubseq(grid_filtered, network_data)

\* C6: whatever the filter widgets hold, the table's result and the grid's
\* result are subsequences of network_data in its order, and no filter step
\* changes network_data.
C6_FilterSubsequence ==
    /\ []ResultsAreSubsequences
    /\ [][network_data' = network_data]_vars

\* C6's case: of two loaded connections the table keeps only the second and
\* the grid only the first
C6_Witness ==
    /\ Len(network_data) = 2
    /\ network_data[1] # network_data[2]
    /\ filtered_data = <<network_data[2]>>
    /\ grid_filtered = <<network_data[1]>>

TableSpecEmpty ==
    /\ table_search = <<>>
    /\ table_protocol = "All Protocols"
    /\ table_status = "All Status"
    /\ table_user = "All Users"

GridSpecEmpty ==
    /\ grid_search = <<>>
    /\ grid_protocol = "All"
    /\ grid_status = "All"

EmptySpecShowsAll ==
    /\ TableSpecEmpty => filtered_data = network_data
    /\ GridSpecEmpty => grid_filtered = network_data

\* C7: with the empty filter specification each consumer shows the whole of
\* network_data in its order, and Clear on a consumer leaves it with the empty
\* specification and the whole of network_data, whatever was filtered before.
C7_EmptyFilterIdentity ==
    /\ []EmptySpecShowsAll
    /\ [][ClearTableFilters => (TableSpecEmpty' /\ filtered_data' = network_data')]_vars
    /\ [][ClearGridFilters => (GridSpecEmpty' /\ grid_filtered' = network_data')]_vars

\* C7's case: the table is back on the empty specification and shows both
\* loaded connections while the grid still filters
C7_Witness ==
    /\ TableSpecEmpty
    /\ Len(filtered_data) = 2
    /\ Len(table_user_items) > 1
    /\ ~GridSpecEmpty
    /\ Len(grid_filtered) = 1

\* a step of one of the grid's filter widgets
GridFilterStep ==
    \/ \E t \in SearchTexts : SetGridSearch(t)
    \/ \E p \in Protocols \cup {"All"} : SetGridProtocol(p)
    \/ \E s \in Range(grid_status_items) : SetGridStatus(s)
    \/ ClearGridFilters

\* a step of one of the table's filter widgets
TableFilterStep ==
    \/ \E t \in SearchTexts : SetTableSearch(t)
    \/ \E p \in Protocols \cup {"All Protocols"} : SetTableProtocol(p)
    \/ \E s \in Range(table_status_items) : SetTableStatus(s)
    \/ \E u \in Range(table_user_items) : SetTableUser(u)
    \/ ClearTableFilters

\* C8: a step of a grid filter widget leaves the table's filter fields and
\* filtered_data as they were, and a step of a table filter widget leaves the
\* grid's filter fields and the grid's result as they were.
C8_ConsumersIndependent ==
    /\ [][GridFilterStep => UNCHANGED <<tableVars, filtered_data>>]_vars
    /\ [][TableFilterStep => UNCHANGED <<gridVars, grid_filtered>>]_vars

\* C8's case: both consumers filter, with different fields and different results
C8_Witness ==
    /\ grid_search # <<>>
    /\ table_search = <<>>
    /\ table_protocol = "UDP"
    /\ grid_protocol = "All"
    /\ Len(grid_filtered) = 1
    /\ Len(filtered_data) = 1
    /\ grid_filtered # filtered_data

----------------------------------------------------------------------------
(* The filter signals (SpecNav).                                           *)

\* what publishing FilterByProcess(name) from an emitter has to leave behind
FilteredByProcess(name) ==
    /\ grid_search' = name
    /\ grid_filtered' = SelectSeq(network_data,
                                  LAMBDA n : GridKeeps(n, name, grid_protocol, grid_status))
    /\ tabs_index' = 1
    /\ UNCHANGED <<tableVars, filtered_data>>

\* C9: each emitter of FilterByProcess(name) (double click in the process
\* tree, double click in the threat list, the filter button of the intel tab)
\* leaves the grid's search text at name, the grid's result recomputed with
\* it, tab 1 active, and the table's filter fields and filtered_data untouched.
C9_FilterByProcess ==
    /\ [][\A i \in DOMAIN process_tree :
              OnTreeDoubleClicked(i) =>
                  FilteredByProcess(Get(process_tree[i].proc, "Name", <<>>))]_vars
    /\ [][\A i \in DOMAIN threat_list :
              OnThreatClicked(i) => FilteredByProcess(threat_list[i])]_vars
    /\ [][FilterBySelectedProcess =>
              FilteredByProcess(Get(intel_tree[intel_selected].proc, "Name", <<>>))]_vars

\* C9's case: FilterByProcess("Ab") has been handled: tab 1 is active and the
\* grid shows the one matching connection of two, while the table filters on
\* its own
C9_Witness ==
    /\ status_message = [msg |-> "Filtered by process", arg |-> T_Ab]
    /\ grid_search = T_Ab
    /\ tabs_index = 1
    /\ Len(network_data) = 2
    /\ Len(grid_filtered) = 1
    /\ table_search # <<>>
    /\ filtered_data # grid_filtered

\* C10: publishing FilterByUser(username) leaves the table's user field at
\* username, whether or not a loaded process has it, filtered_data holding
\* exactly the connections whose resolved user is username, and the table
\* (tab 6) active.
C10_FilterByUser ==
    [][\A u \in UserNames :
           OnFilterByUser(u) =>
               /\ table_user' = u
               /\ \A i \in DOMAIN filtered_data' :
                      NetUser(process_map, filtered_data'[i]) = u
               /\ tabs_index' = 6]_vars

\* the part of C10 the handler does provide: the table's result is recomputed
\* from the fields the handler leaves
C10_Recomputed ==
    [][\A u \in UserNames :
           OnFilterByUser(u) =>
               filtered_data' = TableFilter(network_data, process_map, table_search',
                                            table_protocol', table_status', table_user')]_vars

----------------------------------------------------------------------------
(* The highlight signals (SpecDash).                                       *)

\* C11: whenever highlight_untrusted or highlight_external is published, by
\* the click on the card that emits it, then once the slot has run the
\* security tab (index 3) is the active tab, the status message names
\* untrusted processes, respectively external connections, and no filter
\* field of the grid or of the table has changed.
C11_HighlightOpensSecurity ==
    [][/\ GotoSecurity =>
              /\ tabs_index' = 3
              /\ status_message'.msg = "Viewing untrusted processes"
              /\ UNCHANGED <<gridVars, tableVars>>
       /\ GotoExternal =>
              /\ tabs_index' = 3
              /\ status_message'.msg = "Viewing external connections"
              /\ UNCHANGED <<gridVars, tableVars>>]_vars

\* the security tab is active with the emphasis on external connections, and
\* the filters set before the click are still set
C11_Witness ==
    /\ tabs_index = 3
    /\ breadcrumb = "Security"
    /\ status_message.msg = "Viewing external connections"
    /\ table_status = "LISTEN"
    /\ grid_search = T_a

----------------------------------------------------------------------------
(* Trust and externality (SpecDash).                                       *)

\* trusted as the specification words it: Authenticode is present, neither
\* null nor empty, and its Trusted field equals "trusted"
SpecTrusted(n) ==
    /\ "Authenticode" \in DOMAIN n
    /\ n.Authenticode # JNull
    /\ "Trusted" \in DOMAIN n.Authenticode
    /\ n.Authenticode.Trusted = "trusted"

\* the loaded connections that are not trusted
Untrusted == SelectSeq(network_data, LAMBDA n : ~SpecTrusted(n))

\* the security tab has been filled from the loaded connections
SecurityFilled == security_cards.shown /\ ~load_error

\* C12: a connection is classified trusted exactly when its Authenticode is
\* present and its Trusted field equals "trusted"; the dashboard's count, the
\* security tab's list of unsigned names with its counts, and the Trusted
\* column of every row of the table all follow this one classification.
C12_TrustClassification ==
    /\ \A i \in DOMAIN network_data :
           LET n == network_data[i]
           IN /\ DashUnsigned(n) <=> ~SpecTrusted(n)
              /\ IsUnsigned(n) <=> ~SpecTrusted(n)
              /\ TableTrusted(n) <=> SpecTrusted(n)
    /\ dashboard.unsigned = Len(Untrusted)
    /\ SecurityFilled =>
           /\ Range(threat_list) = {Get(Untrusted[i], "Name", PyNone) : i \in DOMAIN Untrusted}
           /\ security_cards.unsigned = Cardinality(Range(threat_list))
    /\ \A r \in DOMAIN advanced_table :
           advanced_table[r].trusted <=> SpecTrusted(advanced_table[r].net)

\* the table shows a trusted row and rows whose Authenticode is null, empty,
\* without Trusted, or "untrusted", and the other two views are filled
C12_Witness ==
    /\ SecurityFilled
    /\ \E r \in DOMAIN advanced_table : advanced_table[r].trusted
    /\ \E r \in DOMAIN advanced_table :
           /\ ~advanced_table[r].trusted
           /\ "Authenticode" \in DOMAIN advanced_table[r].net
           /\ advanced_table[r].net.Authenticode # JNull
           /\ "Trusted" \in DOMAIN advanced_table[r].net.Authenticode
    /\ dashboard.unsigned = 1

\* the text has a character that is not white space
NonBlank(t) == \E i \in DOMAIN t : t[i] # " "

\* the text begins with the loopback prefix 127. or ::1
Loopback(t) ==
    \/ Len(t) >= 4 /\ SubSeq(t, 1, 4) = <<"1", "2", "7", ".">>
    \/ Len(t) >= 3 /\ SubSeq(t, 1, 3) = <<":", ":", "1">>

\* external as the specification words it
SpecExternal(n) ==
    /\ "Status" \in DOMAIN n /\ n.Status = "ESTAB"
    /\ "Raddr" \in DOMAIN n /\ NonBlank(n.Raddr)
    /\ ~Loopback(n.Raddr)

\* C13: a connection counts as external exactly when its Status is ESTAB and
\* its Raddr is present, not blank and without a loopback prefix, and the
\* dashboard's external count is the number of rows of the security tab's
\* external table.
C13_ExternalCount ==
    /\ \A i \in DOMAIN network_data :
           IsExternal(network_data[i]) <=> SpecExternal(network_data[i])
    /\ dashboard.external = Len(SelectSeq(network_data, SpecExternal))
    /\ dashboard.external = Len(external_table)

\* on a load that raises nothing the two views agree on the external
\* connections
ExternalOnCleanLoads == ~load_error => C13_ExternalCount

\* C14: an item of the process tree is marked trusted exactly when its
\* process has an associated connection and the first of them in base order
\* is trusted; an item whose process has none is marked untrusted.
C14_ProcessTrust ==
    \A k \in DOMAIN process_tree :
        LET conns == SelectSeq(network_data,
                               LAMBDA n : /\ "Pid" \in DOMAIN n
                                          /\ "Pid" \in DOMAIN process_tree[k].proc
                                          /\ n.Pid = process_tree[k].proc.Pid)
        IN process_tree[k].trusted <=> (conns # <<>> /\ SpecTrusted(conns[1]))

\* the tree marks the process whose second connection only is trusted as
\* untrusted, and the process with no connection as untrusted
C14_Witness ==
    /\ \E k \in DOMAIN process_tree :
           /\ ~process_tree[k].trusted
           /\ process_tree[k].nconn = 2
           /\ \E i \in DOMAIN network_data :
                  /\ SpecTrusted(network_data[i])
                  /\ network_data[i].Pid = process_tree[k].proc.Pid
    /\ \E k \in DOMAIN process_tree :
           ~process_tree[k].trusted /\ process_tree[k].nconn = 0

----------------------------------------------------------------------------
(* Uptime (SpecUptime).                                                    *)

\* the bucket an uptime text is in
UptimeBucket(text) ==
    IF text = <<"N", "/", "A">> THEN "unknown"
    ELSE IF "d" \in Range(text) THEN "days+hours"
    ELSE IF "h" \in Range(text) THEN "hours+minutes"
    ELSE "minutes"

\* the bucket the specification gives a StartTime at the instant t
SpecBucket(start, t) ==
    IF start = "" \/ start = "0001-01-01T00:00:00Z" \/ ~IsoParses(start)
    THEN "unknown"
    ELSE LET elapsed == t - IsoSeconds(start)
         IN IF elapsed >= 86400 THEN "days+hours"
            ELSE IF elapsed >= 3600 THEN "hours+minutes"
            ELSE "minutes"

\* the StartTime update_advanced_table passes to calculate_uptime for a row
StartOfRow(row) == Get(MapGet(process_map, row.pid), "StartTime", "")

\* C15: calculate_uptime returns the unknown result for an empty StartTime,
\* the zero timestamp and a text that does not parse, and otherwise days and
\* hours when a whole day has elapsed, hours and minutes when an hour but not
\* a day has elapsed, and minutes otherwise; stated of every row
\* update_advanced_table writes at the current instant.
C15_UptimeBuckets ==
    LET rows == UpdateAdvancedTable(filtered_data, process_map, now)
    IN \A r \in DOMAIN rows :
           UptimeBucket(rows[r].uptime) = SpecBucket(StartOfRow(rows[r]), now)

\* the same for the rows whose process did not start after the current instant
UptimeOfPastStarts ==
    LET rows == UpdateAdvancedTable(filtered_data, process_map, now)
    IN \A r \in DOMAIN rows :
           (IsoParses(StartOfRow(rows[r])) /\ StartOfRow(rows[r]) # "0001-01-01T00:00:00Z"
                => IsoSeconds(StartOfRow(rows[r])) <= now)
               => UptimeBucket(rows[r].uptime) = SpecBucket(StartOfRow(rows[r]), now)

----------------------------------------------------------------------------
(* The dashboard's counts (SpecDash).                                      *)

\* the names of the loaded connections that are not trusted
UntrustedNames == {Get(Untrusted[i], "Name", PyNone) : i \in DOMAIN Untrusted}

\* C16: the unsigned/untrusted figure is the number of distinct process names
\* among the untrusted connections, on the dashboard's card as on the security
\* tab's card, so that the two cards show the same value.
C16_UnsignedByName ==
    /\ dashboard.unsigned = Cardinality(UntrustedNames)
    /\ security_cards.shown => security_cards.unsigned = dashboard.unsigned

\* the security tab's card does count names
SecurityCardCountsNames ==
    security_cards.shown => security_cards.unsigned = Cardinality(UntrustedNames)

\* the loaded process records that have a connection with their Pid
ProcessesWithConnections ==
    {i \in DOMAIN process_data :
        \E j \in DOMAIN network_data :
            /\ "Pid" \in DOMAIN process_data[i]
            /\ "Pid" \in DOMAIN network_data[j]
            /\ network_data[j].Pid = process_data[i].Pid}

\* C17: the dashboard's `with network` figure is the number of loaded
\* processes that have at least one associated connection; it is never more
\* than the number of processes, and a connection whose Pid no loaded process
\* has adds nothing to it.
C17_ProcsWithNetwork ==
    /\ dashboard.procs_with_net = Cardinality(ProcessesWithConnections)
    /\ dashboard.procs_with_net <= dashboard.total_procs

----------------------------------------------------------------------------
(* Loading, and loading again (SpecLoad).                                  *)

\* the seven views show what their populate calls make of these records, the
\* grid and the table under the filters that are set
\* the timeline has a row for every process record, in the order of the
\* records' start, and the row shows the PID of the process of its time item
\* with the numbers of that PID's connections
TimelineShows(procs, conns) ==
    LET sorted_procs == SortedByStart(procs, DOMAIN procs)
    IN /\ Len(timeline_rows) = Len(procs)
       /\ \A r \in DOMAIN timeline_rows :
              LET row == timeline_rows[r]
                  cs  == ConnsOf(conns, StrGetEmpty(sorted_procs[r], "Pid"))
              IN /\ row.proc = sorted_procs[r]
                 /\ ~IsNone(row.pid)
                 /\ row.pid = StrGetEmpty(sorted_procs[r], "Pid")
                 /\ row.nconn = Len(cs)

\* the six views other than the timeline show the records procs and conns
OtherViewsShow(procs, conns) ==
    /\ dashboard = Dashboard(procs, conns)
    /\ grid_filtered = GridFilter(conns, grid_search, grid_protocol, grid_status)
    /\ intel_tree = PopulateProcessIntel(procs, conns).nodes
    /\ security_cards.shown
    /\ security_cards.external = Len(SelectSeq(conns, SpecExternal))
    /\ Range(threat_list) =
           {Get(conns[i], "Name", PyNone) : i \in {j \in DOMAIN conns : ~SpecTrusted(conns[j])}}
    /\ external_table = ExternalRows(conns, BuildProcessMap(procs))
    /\ process_tree = PopulateProcessTree(procs, conns).nodes
    /\ \A r \in DOMAIN advanced_table : \E i \in DOMAIN conns : advanced_table[r].net = conns[i]
    /\ Len(advanced_table) = Len(filtered_data)

\* all seven views show the records procs and conns
ViewsShow(procs, conns) == OtherViewsShow(procs, conns) /\ TimelineShows(procs, conns)

\* no loaded process record names itself as its parent
NoSelfParent ==
    \A i \in DOMAIN process_data :
        ~("Ppid" \in DOMAIN process_data[i] /\ process_data[i].Ppid = process_data[i].Pid)

\* C18: a load of records that only lack fields does not fail: load_data
\* completes, no populate call raises, and all seven views are populated from
\* the loaded records. Stated of loads in which no process is its own parent.
C18_MissingFieldsLoad ==
    NoSelfParent => (~load_error /\ ViewsShow(process_data, network_data))

\* the statuses of the loaded connections and the usernames of the loaded
\* processes
LoadedStatuses == {Get(network_data[i], "Status", "") : i \in DOMAIN network_data} \ {""}

LoadedUsernames == {Get(process_data[i], "Username", "") : i \in DOMAIN process_data} \ {""}

\* a selector holds its first item and then these values, each once
HoldsOnly(items, values) ==
    /\ {items[i] : i \in 2..Len(items)} = values
    /\ Len(items) = 1 + Cardinality(values)

\* C19: a load replaces the one before it: the records, the PID map, the
\* table's result set and the vocabularies of the status and user selectors
\* come from the newly loaded input alone, nothing of the previous load being
\* carried over or duplicated.
C19_LoadReplaces ==
    /\ DOMAIN process_map = {StrGetEmpty(process_data[i], "Pid") : i \in DOMAIN process_data}
    /\ \A k \in DOMAIN process_map : process_map[k] \in Range(process_data)
    /\ IsSubseq(filtered_data, network_data)
    /\ HoldsOnly(grid_status_items, LoadedStatuses)
    /\ HoldsOnly(table_status_items, LoadedStatuses)
    /\ HoldsOnly(table_user_items, LoadedUsernames)

\* the records, the map and the result set are replaced
RecordsReplaced ==
    /\ DOMAIN process_map = {StrGetEmpty(process_data[i], "Pid") : i \in DOMAIN process_data}
    /\ \A k \in DOMAIN process_map : process_map[k] \in Range(process_data)
    /\ IsSubseq(filtered_data, network_data)

\* the inputs load_data may have been given
Snapshots == {[procs |-> procs, conns |-> conns] :
                  procs \in LoadProcs, conns \in LoadConnLists} \cup Reloads

\* C20: once load_data has returned, all seven views reflect one and the same
\* snapshot, also when a populate call raised: in no reachable state do some
\* views show one load's records and others another's, or none.
C20_OneSnapshot ==
    \E snap \in Snapshots : ViewsShow(snap.procs, snap.conns)

\* the views other than the timeline agree on the loaded records whenever the
\* last load raised nothing
OneSnapshotOnCleanLoads ==
    ~load_error => OtherViewsShow(process_data, network_data)

\* the timeline shows the loaded records after a first load that raised
\* nothing of process records no two of which have the same start text
TimelineOnDistinctStarts ==
    (/\ ~load_error
     /\ \A i, j \in DOMAIN process_data :
            i # j => StartText(process_data[i]) # StartText(process_data[j]))
        => TimelineShows(process_data, network_data)

----------------------------------------------------------------------------
(* C21: duplicate Pids (SpecTree).                                         *)

\* the index of the last record of process_data with the Pid text key
LastWith(key) ==
    CHOOSE i \in DOMAIN process_data :
        /\ StrGetEmpty(process_data[i], "Pid") = key
        /\ \A j \in DOMAIN process_data :
               StrGetEmpty(process_data[j], "Pid") = key => j <= i

\* the Pid texts that two records of process_data carry
DuplicatedPids ==
    {StrGetEmpty(process_data[i], "Pid") : i \in
        {k \in DOMAIN process_data :
            \E j \in DOMAIN process_data :
                j # k /\ StrGetEmpty(process_data[j], "Pid")
                         = StrGetEmpty(process_data[k], "Pid")}}

\* for every Pid that process_data holds more than once, process_map holds the
\* record loaded last under that Pid and every connection with that Pid
\* resolves to that last record: the lookup returns it and the table row of
\* the connection shows its Username
LastRecordResolves ==
    \A key \in DuplicatedPids :
        LET last == process_data[LastWith(key)]
        IN /\ key \in DOMAIN process_map
           /\ process_map[key] = last
           /\ \A i \in DOMAIN network_data :
                  StrGetEmpty(network_data[i], "Pid") = key
                      => MapGet(process_map, StrGetEmpty(network_data[i], "Pid")) = last
           /\ \A r \in DOMAIN advanced_table :
                  advanced_table[r].pid = key
                      => advanced_table[r].username = last.Username

\* C21: when process_data holds a Pid more than once, process_map holds the
\* record loaded last under that Pid, the load has not failed, and every
\* connection with that Pid resolves to that last record.
C21_LastWriteWins ==
    /\ LastRecordResolves
    /\ DuplicatedPids # {} => ~load_error

----------------------------------------------------------------------------
(* C22: the text search.                                                   *)

\* the lower-cased text t is a substring of the lower-cased value of one of
\* the four fields of net
MatchesAField(net, t) ==
    \E field \in {Get(net, "Name", <<>>), StrGetEmpty(net, "Pid"),
                  Get(net, "Laddr", <<>>), Get(net, "Raddr", <<>>)} :
        Contains(Lower(field), Lower(t))

\* C22: with a search text and the other selectors at "All", the grid and the
\* table show exactly the connections of which one of the four fields (name,
\* Pid, local address, remote address) contains the lower-cased text; a text
\* that no field contains on its own selects nothing.
C22_SearchMatchesAField ==
    /\ (grid_search # <<>> /\ grid_protocol = "All" /\ grid_status = "All")
           => grid_filtered
              = SelectSeq(network_data, LAMBDA net : MatchesAField(net, grid_search))
    /\ (table_search # <<>> /\ table_protocol = "All Protocols" /\ table_status = "All Status"
            /\ table_user = "All Users")
           => filtered_data
              = SelectSeq(network_data, LAMBDA net : MatchesAField(net, table_search))

\* C22 for the search texts that hold no space: such a text cannot reach from
\* one field of "name pid laddr raddr" into the next
SearchWithinOneField ==
    (\A k \in DOMAIN grid_search : grid_search[k] # " ")
    /\ (\A k \in DOMAIN table_search : table_search[k] # " ")
        => C22_SearchMatchesAField

----------------------------------------------------------------------------
(* C23: the table's username filter (SpecBus).                             *)

\* the resolved owning username of net: the Username of the process its Pid
\* resolves to, its own Username when its Pid resolves to no process
ResolvedUser(net) ==
    LET pid == StrGetEmpty(net, "Pid")
    IN IF pid \in DOMAIN process_map
       THEN Get(process_map[pid], "Username", "")
       ELSE Get(net, "Username", "")

\* C23: the table shows a connection under a selected username exactly when
\* the connection passes the other fields and its resolved owning username is
\* the selected one; a Pid that resolves to no process falls back to the
\* connection's own Username and is no error.
C23_ResolvedUserFilter ==
    table_user # "All Users" =>
        filtered_data
        = SelectSeq(network_data,
                    LAMBDA net : /\ TableKeeps(process_map, net, table_search,
                                               table_protocol, table_status, "All Users")
                                 /\ ResolvedUser(net) = table_user)

\* C23 for the loads in which every process record has a Username
UserFilterOfNamedProcesses ==
    (\A i \in DOMAIN process_data : Has(process_data[i], "Username"))
        => C23_ResolvedUserFilter

----------------------------------------------------------------------------
(* C24: dispatch is synchronous and bounded (FairSpecBus).                 *)

\* what the slot of the signal that the call `frame` emitted has done by the
\* time it returns
SlotReturned(frame) ==
    LET signal == Emits(frame.fn)
    IN CASE signal = "process_selected" ->
                status_message = [msg |-> "Viewing process PID", arg |-> EmitArg(frame).text]
         [] signal = "connection_selected" -> dialog = <<>>
         [] signal = "filter_by_process" ->
                /\ grid_search = frame.arg.text
                /\ status_message = [msg |-> "Filtered by process", arg |-> frame.arg.text]
         [] signal = "filter_by_user" ->
                table_user = ComboSetCurrentText(table_user_items, table_user, frame.arg.user)
         [] signal = "highlight_external" ->
                status_message = [msg |-> "Viewing external connections", arg |-> <<>>]
         [] signal = "highlight_untrusted" ->
                status_message = [msg |-> "Viewing untrusted processes", arg |-> <<>>]

\* a call that has emitted waits below the slot it called, and goes on to its
\* next statement only when that slot has run and returned
EmitIsACall ==
    /\ \A k \in 1..(Len(stack) - 1) :
           /\ stack[k].pc = "emitted"
           /\ stack[k + 1].fn = Subscriber(Emits(stack[k].fn))
    /\ (~Idle /\ Top.pc = "emitted") => SlotReturned(Top)

\* one input runs at most two slots, and no signal is emitted while its own
\* slot is running
DispatchBounded ==
    /\ invoked <= 2
    /\ Len(stack) <= 3
    /\ \A j, k \in DOMAIN stack :
           (j # k /\ Handles(stack[j].fn) # "") => Handles(stack[j].fn) # Handles(stack[k].fn)
    /\ \A k \in DOMAIN stack :
           stack[k].pc = "emit" =>
               \A j \in DOMAIN stack : Handles(stack[j].fn) # Emits(stack[k].fn)

\* C24: emitting one of the six signals runs the connected slot to its return
\* before the emitter's next statement, one input causes a bounded number of
\* slot runs with no signal emitted again while it is being dispatched, and
\* every dispatch runs on until the window is idle again or waits for the
\* reply to its dialog.
C24_SynchronousBounded ==
    /\ [](EmitIsACall /\ DispatchBounded)
    /\ (~Idle ~> (Idle \/ dialog # <<>>))

\* on_connection_selected has emitted process_selected, whose slot has
\* returned, and setCurrentIndex(4) is its next statement
C24_Witness ==
    /\ Len(stack) = 2
    /\ stack[1].fn = "on_card_clicked"
    /\ Top.fn = "on_connection_selected"
    /\ Top.pc = "emitted"
    /\ invoked = 2
    /\ tabs_index # 4

----------------------------------------------------------------------------
(* C25: connection_selected (FairSpecBus).                                 *)

\* on_connection_selected is the running call, at statement pc
ConnectionSelectedAt(pc) ==
    ~Idle /\ Top.fn = "on_connection_selected" /\ Top.pc = pc

\* the message on_process_selected leaves for the connection of the running
\* on_connection_selected: the current selection
SelectionOfTop ==
    [msg |-> "Viewing process PID", arg |-> StrGetEmpty(Top.arg.conn, "Pid")]

\* the owner of the connection c resolved through process_map: the Username
\* of the process that str(Pid) resolves to, "N/A" when that record has none,
\* and the connection's own Username when str(Pid) resolves to no process
Owner(c) ==
    LET pid == StrGetEmpty(c, "Pid")
    IN IF pid \in DOMAIN process_map
       THEN Get(process_map[pid], "Username", "N/A")
       ELSE Get(c, "Username", "N/A")

\* the open dialog shows the connection that was selected and its owner
DetailsSurfaced ==
    dialog # <<>> =>
        /\ ConnectionSelectedAt("question")
        /\ LET c   == Top.arg.conn
               pid == StrGetEmpty(c, "Pid")
           IN /\ dialog.pid = pid
              /\ dialog.name = Get(c, "Name", NoneText)
              /\ dialog.status = Get(c, "Status", "None")
              /\ dialog.laddr = Get(c, "Laddr", NoneText)
              /\ dialog.raddr = Get(c, "Raddr", NoneText)
              /\ dialog.user = Owner(c)

\* while on_connection_selected runs, the tab changes only in its last
\* statement, to index 4, with the Pid already in the status bar
SelectedBeforeTreeTab ==
    (ConnectionSelectedAt(Top.pc) /\ tabs_index' # tabs_index)
        => /\ Top.pc = "emitted"
           /\ status_message = SelectionOfTop
           /\ tabs_index' = 4
           /\ breadcrumb' = "Process Tree"

\* Cancel ends on_connection_selected with nothing changed
CancelChangesNothing ==
    DialogReply(FALSE)
        => /\ \A k \in DOMAIN stack' : stack'[k].fn # "on_connection_selected"
           /\ UNCHANGED <<navVars, status_message, gridVars, grid_filtered, tableVars,
                          filtered_data, advanced_table, tree_search, intel_selected,
                          invoked>>

\* C25: connection_selected opens a dialog with the connection's details and
\* its owner resolved through process_map; after Ok, process_selected(str(Pid))
\* is emitted and its slot has put the Pid into the status bar before tab 4
\* (the process tree) becomes the active tab, which it then does; after Cancel
\* the active tab, the status bar and every filter are as they were.
C25_ConnectionSelected ==
    /\ []DetailsSurfaced
    /\ [][SelectedBeforeTreeTab]_vars
    /\ [][CancelChangesNothing]_vars
    /\ (ConnectionSelectedAt("body") ~> dialog # <<>>)
    /\ (ConnectionSelectedAt("emit")
            ~> (tabs_index = 4 /\ status_message.msg = "Viewing process PID"))

\* C25 for the loads in which every process record has a Username
ConnectionSelectedOfNamedProcesses ==
    /\ []((\A i \in DOMAIN process_data : Has(process_data[i], "Username"))
             => DetailsSurfaced)
    /\ [][SelectedBeforeTreeTab]_vars
    /\ [][CancelChangesNothing]_vars
    /\ (ConnectionSelectedAt("body") ~> dialog # <<>>)
    /\ (ConnectionSelectedAt("emit")
            ~> (tabs_index = 4 /\ status_message.msg = "Viewing process PID"))

----------------------------------------------------------------------------
(* C26: filtered_data is the table's filter applied (SpecLoad).            *)

\* C26: whatever table filter changes, Clear actions, filter_by_status and
\* filter_by_user navigations and runs of load_data have happened,
\* filtered_data is the result of applying the table's current search text,
\* protocol, status and user to the current network_data.
C26_FilteredIsApplied ==
    filtered_data = TableFilter(network_data, process_map, table_search,
                                table_protocol, table_status, table_user)

----------------------------------------------------------------------------
(* C27: the two joins of connections to processes (SpecBus).               *)

\* the scan of the tree, the timeline and the detail pane associates the
\* connection network_data[i] with the process record p
ScanJoins(i, p) ==
    \E k \in DOMAIN ConnsOf(network_data, StrGetEmpty(p, "Pid")) :
        ConnsOf(network_data, StrGetEmpty(p, "Pid"))[k] = network_data[i]

\* looking the Pid of network_data[i] up in process_map yields a record with
\* the Pid of p
MapJoins(i, p) ==
    LET key == StrGetEmpty(network_data[i], "Pid")
    IN /\ key \in DOMAIN process_map
       /\ Has(process_map[key], "Pid") = Has(p, "Pid")
       /\ Has(p, "Pid") => process_map[key].Pid = p.Pid

\* C27: for every loaded connection and every loaded process, with or without
\* a Pid field, the Pid scan associates the two exactly when the lookup of the
\* connection's Pid in process_map yields a record with the process's Pid.
C27_JoinsAgree ==
    \A i \in DOMAIN network_data, j \in DOMAIN process_data :
        ScanJoins(i, process_data[j]) <=> MapJoins(i, process_data[j])

\* C27 for the loads in which every connection record has a Pid
JoinsAgreeOnConnectionsWithPid ==
    (\A i \in DOMAIN network_data : Has(network_data[i], "Pid")) => C27_JoinsAgree

----------------------------------------------------------------------------
(* C28: the Listening Ports card and the Established card (SpecDash).      *)

\* after filter_by_status(s) the table is the active tab and every record of
\* filtered_data has Status s
StatusCardShows(s) ==
    filter_by_status(s) =>
        /\ tabs_index' = 6
        /\ \A i \in DOMAIN filtered_data' :
               /\ Has(filtered_data'[i], "Status")
               /\ filtered_data'[i].Status = s

\* C28: a click on the Listening Ports card (s = LISTEN) or on the Established
\* card (s = ESTAB) makes the table the active tab with only connections of
\* status s in it, whatever was loaded, also when no loaded connection has
\* status s.
C28_StatusCard ==
    [][\A s \in {"LISTEN", "ESTAB"} : StatusCardShows(s)]_vars

\* C28 for the cards whose status some loaded connection has
StatusCardOfLoadedStatus ==
    [][\A s \in {"LISTEN", "ESTAB"} :
           (\E i \in DOMAIN network_data : Get(network_data[i], "Status", "") = s)
               => StatusCardShows(s)]_vars

----------------------------------------------------------------------------
(* C29: the breadcrumb (SpecBus).                                          *)

\* C29: in every state after construction, whatever cards were clicked, items
\* double-clicked, signals emitted and tabs chosen, the breadcrumb shows the
\* name that tab_names holds at the index of the active tab.
C29_BreadcrumbNamesActiveTab ==
    /\ tabs_index \in 0..(Len(TabNames) - 1)
    /\ breadcrumb = TabNames[tabs_index + 1]

\* a double click in the intel tree has led to the process tree, and the
\* window is idle again
C29_Witness ==
    /\ Idle
    /\ invoked = 1
    /\ status_message.msg = "Viewing process PID"
    /\ tabs_index = 4
    /\ breadcrumb = "Process Tree"

----------------------------------------------------------------------------
(* C30: the search box of the process tree (SpecSearch).                   *)

\* the items below item k of a tree
DescendantsOf(tree, k) == {d \in DOMAIN tree : k \in AncestorsOf(tree, d)}

\* the label of item k holds the text, case ignored
LabelHolds(tree, k, t) == Contains(Lower(tree[k].label), Lower(t))

\* C30: after filter_tree with a search text, an item of the process tree is
\* visible exactly when its own label, or the label of one of the items below
\* it, holds the text with case ignored; after filter_tree with no text every
\* item is visible.
C30_TreeSearch ==
    [][\A t \in TreeSearchTexts :
           SetTreeSearch(t) =>
               \A k \in DOMAIN process_tree' :
                   ~process_tree'[k].hidden
                   <=> \/ t = <<>>
                       \/ LabelHolds(process_tree', k, t)
                       \/ \E d \in DescendantsOf(process_tree', k) :
                              LabelHolds(process_tree', d, t)]_vars

\* the search text "b" has hidden one item and left visible an item whose
\* label does not hold it, above an item whose label does
C30_Witness ==
    /\ tree_search = T_b
    /\ \E k \in DOMAIN process_tree : process_tree[k].hidden
    /\ \E k \in DOMAIN process_tree :
           /\ ~process_tree[k].hidden
           /\ ~LabelHolds(process_tree, k, T_b)
           /\ \E d \in DescendantsOf(process_tree, k) : LabelHolds(process_tree, d, T_b)

====
